---- MODULE Spec2Model ----
(***************************************************************************)
(* Session accounting (src/time_tracker.py, class TimeTracker) and the     *)
(* milestone scanner and command handlers that drive it (src/bot.py).      *)
(*                                                                         *)
(* Time is in whole seconds.  Timestamps written with isoformat() and read *)
(* back with fromisoformat() are kept as the number of seconds they stand  *)
(* for (the round trip of a naive datetime is exact).  A key that a record *)
(* dict may lack (last_start, pause_start, last_milestone_check) holds     *)
(* None while it is absent.  notified_milestones is a list that the code   *)
(* only ever tests for membership and appends to when the value is not in  *)
(* it: it is kept as a set.                                                *)
(***************************************************************************)
EXTENDS Integers, Sequences, FiniteSets, TLC

\* ------------------------------------------------------------------------
\* Program constants
\* ------------------------------------------------------------------------
Hour == 3600
MinuteSeconds == 60
AutoCancelPauses == 3
StandardCeilingHours == 1
ElevatedCeilingHours == 4
CatchUpPeriod == 12
OneHourCredits == 3
TwoHourCredits == 5

\* ------------------------------------------------------------------------
\* Bounds of the model
\* ------------------------------------------------------------------------
\* the clock runs from 0 to MaxClock steps of half an hour
MaxClock == 2
\* where the clock is let run on with no command, it runs to LongClock half hours
LongClock == 6
\* add_minutes is not issued once total_time would pass MaxTotal half hours
MaxTotal == 4
\* the ledger's start is not issued for a record that already has MaxSessions closed sessions
MaxSessions == 2
\* the start command is not issued for a record the scanner has stopped MaxStops times
MaxStops == 1
\* the ledger-level pause is not issued past MaxPauses pauses
MaxPauses == 3
\* negative minute arguments are not issued once total_time is MaxDebt half hours below zero
MaxDebt == 1

TimeStep == Hour \div 2
None == 0 - 1

\* user 1 is a guild member, user 2 is an external user known only by name
\* (src/bot.py:1455-1459 derives its id from the name)
Members == {1}
Externals == {2}
Users == Members \cup Externals
Names == {"ana"}
\* minute arguments the ledger is called with, and those the commands accept
LedgerMinutes == {0 - 30, 0, 30, 120}
CommandMinutes == {120}

VARIABLES
    data,           \* TimeTracker.data: [keys: insertion order, recs: id -> record]
    disk,           \* the content of user_times.json
    clock,          \* datetime.now(), in seconds
    lastCall,       \* the last operation that ran, with its result
    running_time,   \* observer: per user, seconds spent Running since the record was created or reset
    sent,           \* observer: per user, the hours notified since the last reset or cancel
    scan_pc,        \* periodic_milestone_check: "sleep", "cu_send" or "live_send"
    milestone_check_count,  \* its counter, modulo CatchUpPeriod
    tracked_users,  \* the rest of the snapshot the running sweep iterates over
    scan_total,     \* check_missing_milestones' local total_time while it awaits
    pending_check,  \* users for whom a sumar command awaits its check_time_milestone
    milestone_check_task,   \* the global of that name: None, or the task of the scanner
    scanner_tasks,  \* observer: the tasks of periodic_milestone_check created so far
    notifying       \* the command handlers that await channel.send: [kind, user]

vars == <<data, disk, clock, lastCall, running_time, sent, scan_pc,
          milestone_check_count, tracked_users, scan_total, pending_check,
          milestone_check_task, scanner_tasks, notifying>>

\* what only on_connect and the handlers that await a delivery write
task_vars == <<milestone_check_task, scanner_tasks, notifying>>

\* ------------------------------------------------------------------------
\* The store: a dict in insertion order
\* ------------------------------------------------------------------------
EmptyStore == [keys |-> <<>>, recs |-> <<>>]

Has(D, u) == u \in DOMAIN D.recs

RECURSIVE SeqWithout(_, _)
SeqWithout(s, u) ==
    IF s = <<>> THEN <<>>
    ELSE IF Head(s) = u THEN SeqWithout(Tail(s), u)
    ELSE <<Head(s)>> \o SeqWithout(Tail(s), u)

\* self.data[user_id_str] = rec
Put(D, u, rec) ==
    [keys |-> IF Has(D, u) THEN D.keys ELSE Append(D.keys, u),
     recs |-> [x \in DOMAIN D.recs \cup {u} |-> IF x = u THEN rec ELSE D.recs[x]]]

\* del self.data[user_id_str]
Del(D, u) ==
    [keys |-> SeqWithout(D.keys, u),
     recs |-> [x \in DOMAIN D.recs \ {u} |-> D.recs[x]]]

NewRecord(user_name) ==
    [name |-> user_name,
     total_time |-> 0,
     sessions |-> <<>>,
     is_active |-> FALSE,
     is_paused |-> FALSE,
     pause_count |-> 0,
     notified_milestones |-> {},
     milestone_completed |-> FALSE,
     last_start |-> None,
     pause_start |-> None,
     last_milestone_check |-> None,
     is_external_user |-> FALSE]

Result(D, r, s) == [data |-> D, ret |-> r, saved |-> s]

\* ------------------------------------------------------------------------
\* TimeTracker
\* ------------------------------------------------------------------------
\* a start that does not write the session start
start_without_timestamp(D, user_id, user_name, now) ==
    LET D1 == IF Has(D, user_id) THEN D ELSE Put(D, user_id, NewRecord(user_name))
        user_data == D1.recs[user_id]
    IN  IF user_data.is_active THEN Result(D1, FALSE, FALSE)
        ELSE IF user_data.is_paused THEN Result(D1, FALSE, FALSE)
        ELSE Result(Put(D1, user_id, [user_data EXCEPT !.is_active = TRUE,
                                                       !.is_paused = FALSE,
                                                       !.name = user_name]),
                    TRUE, TRUE)

start_tracking(D, user_id, user_name, now) ==
    LET D1 == IF Has(D, user_id) THEN D ELSE Put(D, user_id, NewRecord(user_name))
        user_data == D1.recs[user_id]
    IN  IF user_data.is_active THEN Result(D1, FALSE, FALSE)
        ELSE IF user_data.is_paused THEN Result(D1, FALSE, FALSE)
        ELSE Result(Put(D1, user_id, [user_data EXCEPT !.is_active = TRUE,
                                                       !.is_paused = FALSE,
                                                       !.last_start = now,
                                                       !.name = user_name]),
                    TRUE, TRUE)

\* a stop that does not look at is_active
stop_unchecked(D, user_id, now) ==
    IF ~Has(D, user_id) THEN Result(D, FALSE, FALSE)
    ELSE LET user_data == D.recs[user_id]
             session_time == IF user_data.last_start # None
                             THEN now - user_data.last_start ELSE 0
             session_record == [start |-> user_data.last_start,
                                end |-> now,
                                duration |-> session_time]
         IN  Result(Put(D, user_id,
                        [user_data EXCEPT !.total_time = @ + session_time,
                                          !.is_active = FALSE,
                                          !.is_paused = FALSE,
                                          !.sessions = Append(@, session_record)]),
                    TRUE, TRUE)

\* a stop that starts the count of pauses afresh
stop_clearing_pauses(D, user_id, now) ==
    IF ~Has(D, user_id) THEN Result(D, FALSE, FALSE)
    ELSE LET user_data == D.recs[user_id]
             session_time == IF user_data.last_start # None
                             THEN now - user_data.last_start ELSE 0
             session_record == [start |-> user_data.last_start,
                                end |-> now,
                                duration |-> session_time]
         IN  IF ~user_data.is_active THEN Result(D, FALSE, FALSE)
             ELSE Result(Put(D, user_id,
                             [user_data EXCEPT !.total_time = @ + session_time,
                                               !.is_active = FALSE,
                                               !.is_paused = FALSE,
                                               !.pause_count = 0,
                                               !.sessions = Append(@, session_record)]),
                         TRUE, TRUE)

stop_tracking(D, user_id, now) ==
    IF ~Has(D, user_id) THEN Result(D, FALSE, FALSE)
    ELSE LET user_data == D.recs[user_id]
             session_time == IF user_data.last_start # None
                             THEN now - user_data.last_start ELSE 0
             session_record == [start |-> user_data.last_start,
                                end |-> now,
                                duration |-> session_time]
         IN  IF ~user_data.is_active THEN Result(D, FALSE, FALSE)
             ELSE Result(Put(D, user_id,
                             [user_data EXCEPT !.total_time = @ + session_time,
                                               !.is_active = FALSE,
                                               !.is_paused = FALSE,
                                               !.sessions = Append(@, session_record)]),
                         TRUE, TRUE)

\* a pause that does not look at is_active
pause_unchecked(D, user_id, now) ==
    IF ~Has(D, user_id) THEN Result(D, FALSE, FALSE)
    ELSE LET user_data == D.recs[user_id]
             session_time == IF user_data.last_start # None
                             THEN now - user_data.last_start ELSE 0
         IN  Result(Put(D, user_id,
                        [user_data EXCEPT !.total_time = @ + session_time,
                                          !.is_active = FALSE,
                                          !.is_paused = TRUE,
                                          !.pause_start = now,
                                          !.pause_count = @ + 1]),
                    TRUE, TRUE)

\* a pause that leaves is_active set
pause_leaving_active(D, user_id, now) ==
    IF ~Has(D, user_id) THEN Result(D, FALSE, FALSE)
    ELSE LET user_data == D.recs[user_id]
             session_time == IF user_data.last_start # None
                             THEN now - user_data.last_start ELSE 0
         IN  IF ~user_data.is_active THEN Result(D, FALSE, FALSE)
             ELSE Result(Put(D, user_id,
                             [user_data EXCEPT !.total_time = @ + session_time,
                                               !.is_paused = TRUE,
                                               !.pause_start = now,
                                               !.pause_count = @ + 1]),
                         TRUE, TRUE)

\* a pause that removes the record itself once pause_count reaches 3
pause_cancelling_at_three(D, user_id, now) ==
    IF ~Has(D, user_id) THEN Result(D, FALSE, FALSE)
    ELSE LET user_data == D.recs[user_id]
             session_time == IF user_data.last_start # None
                             THEN now - user_data.last_start ELSE 0
         IN  IF ~user_data.is_active THEN Result(D, FALSE, FALSE)
             ELSE IF user_data.pause_count + 1 >= AutoCancelPauses
             THEN Result([keys |-> SelectSeq(D.keys, LAMBDA k : k # user_id),
                          recs |-> [x \in DOMAIN D.recs \ {user_id} |-> D.recs[x]]],
                         TRUE, TRUE)
             ELSE Result(Put(D, user_id,
                             [user_data EXCEPT !.total_time = @ + session_time,
                                               !.is_active = FALSE,
                                               !.is_paused = TRUE,
                                               !.pause_start = now,
                                               !.pause_count = @ + 1]),
                         TRUE, TRUE)

pause_tracking(D, user_id, now) ==
    IF ~Has(D, user_id) THEN Result(D, FALSE, FALSE)
    ELSE LET user_data == D.recs[user_id]
             session_time == IF user_data.last_start # None
                             THEN now - user_data.last_start ELSE 0
         IN  IF ~user_data.is_active THEN Result(D, FALSE, FALSE)
             ELSE Result(Put(D, user_id,
                             [user_data EXCEPT !.total_time = @ + session_time,
                                               !.is_active = FALSE,
                                               !.is_paused = TRUE,
                                               !.pause_start = now,
                                               !.pause_count = @ + 1]),
                         TRUE, TRUE)

\* a resume that leaves pause_start in the record
resume_keeping_pause_start(D, user_id, now) ==
    IF ~Has(D, user_id) THEN Result(D, FALSE, FALSE)
    ELSE LET user_data == D.recs[user_id]
         IN  IF ~user_data.is_paused THEN Result(D, FALSE, FALSE)
             ELSE Result(Put(D, user_id,
                             [user_data EXCEPT !.is_active = TRUE,
                                               !.is_paused = FALSE,
                                               !.last_start = now]),
                         TRUE, TRUE)

\* a resume that keeps the session start of before the pause
resume_keeping_start(D, user_id, now) ==
    IF ~Has(D, user_id) THEN Result(D, FALSE, FALSE)
    ELSE LET user_data == D.recs[user_id]
         IN  IF ~user_data.is_paused THEN Result(D, FALSE, FALSE)
             ELSE Result(Put(D, user_id,
                             [user_data EXCEPT !.is_active = TRUE,
                                               !.is_paused = FALSE,
                                               !.pause_start = None]),
                         TRUE, TRUE)

\* a resume that banks the length of the pause
resume_banking_pause(D, user_id, now) ==
    IF ~Has(D, user_id) THEN Result(D, FALSE, FALSE)
    ELSE LET user_data == D.recs[user_id]
         IN  IF ~user_data.is_paused THEN Result(D, FALSE, FALSE)
             ELSE Result(Put(D, user_id,
                             [user_data EXCEPT !.is_active = TRUE,
                                               !.is_paused = FALSE,
                                               !.total_time =
                                                   IF user_data.pause_start # None
                                                   THEN @ + (now - user_data.pause_start)
                                                   ELSE @,
                                               !.last_start = now,
                                               !.pause_start = None]),
                         TRUE, TRUE)

resume_tracking(D, user_id, now) ==
    IF ~Has(D, user_id) THEN Result(D, FALSE, FALSE)
    ELSE LET user_data == D.recs[user_id]
         IN  IF ~user_data.is_paused THEN Result(D, FALSE, FALSE)
             ELSE Result(Put(D, user_id,
                             [user_data EXCEPT !.is_active = TRUE,
                                               !.is_paused = FALSE,
                                               !.last_start = now,
                                               !.pause_start = None]),
                         TRUE, TRUE)

\* a total that leaves the open session out
get_total_time_banked_only(D, user_id, now) ==
    IF ~Has(D, user_id) THEN 0 ELSE D.recs[user_id].total_time

get_total_time(D, user_id, now) ==
    IF ~Has(D, user_id) THEN 0
    ELSE LET user_data == D.recs[user_id]
         IN  IF user_data.is_active /\ user_data.last_start # None
             THEN user_data.total_time + (now - user_data.last_start)
             ELSE user_data.total_time

get_pause_count(D, user_id) ==
    IF ~Has(D, user_id) THEN 0 ELSE D.recs[user_id].pause_count

get_paused_duration(D, user_id, now) ==
    IF ~Has(D, user_id) THEN 0
    ELSE LET user_data == D.recs[user_id]
         IN  IF ~user_data.is_paused \/ user_data.pause_start = None THEN 0
             ELSE now - user_data.pause_start

\* a lookup that inserts a default record for a missing key
get_user_data_inserting(D, user_id) ==
    IF Has(D, user_id) THEN Result(D, TRUE, FALSE)
    ELSE Result(Put(D, user_id, NewRecord("")), TRUE, FALSE)

\* self.data.get(user_id_str): ret tells whether an object (not None) is
\* returned; the object is data.recs[user_id] of the store returned
get_user_data(D, user_id) == Result(D, Has(D, user_id), FALSE)

\* a reset that leaves the notified thresholds in place
reset_keeping_notified(D, user_id) ==
    IF ~Has(D, user_id) THEN Result(D, FALSE, FALSE)
    ELSE Result(Put(D, user_id,
                    [D.recs[user_id] EXCEPT !.total_time = 0,
                                            !.is_active = FALSE,
                                            !.is_paused = FALSE,
                                            !.pause_count = 0,
                                            !.sessions = <<>>,
                                            !.milestone_completed = FALSE,
                                            !.last_start = None,
                                            !.pause_start = None]),
                TRUE, TRUE)

reset_user_time(D, user_id) ==
    IF ~Has(D, user_id) THEN Result(D, FALSE, FALSE)
    ELSE Result(Put(D, user_id,
                    [D.recs[user_id] EXCEPT !.total_time = 0,
                                            !.is_active = FALSE,
                                            !.is_paused = FALSE,
                                            !.pause_count = 0,
                                            !.sessions = <<>>,
                                            !.notified_milestones = {},
                                            !.milestone_completed = FALSE,
                                            !.last_start = None,
                                            !.pause_start = None]),
                TRUE, TRUE)

\* the loop of reset_all_user_times over list(self.data.keys()), from position i
RECURSIVE reset_all_from(_, _, _, _)
reset_all_from(D, ks, i, count) ==
    IF i > Len(ks) THEN [data |-> D, count |-> count]
    ELSE LET r == reset_user_time(D, ks[i])
         IN  reset_all_from(r.data, ks, i + 1, IF r.ret THEN count + 1 ELSE count)

\* a loop that stops one key short
reset_all_but_last(D) ==
    reset_all_from(D, IF D.keys = <<>> THEN <<>> ELSE SubSeq(D.keys, 1, Len(D.keys) - 1), 1, 0)

reset_all_user_times(D) == reset_all_from(D, D.keys, 1, 0)

\* a cancel that zeroes the record and leaves it in the store
cancel_resetting(D, user_id) ==
    IF ~Has(D, user_id) THEN Result(D, FALSE, FALSE)
    ELSE Result(reset_user_time(D, user_id).data, TRUE, TRUE)

\* a cancel that drops every record
cancel_user_tracking_clearing(D, user_id) ==
    IF ~Has(D, user_id) THEN Result(D, FALSE, FALSE)
    ELSE Result(EmptyStore, TRUE, TRUE)

cancel_user_tracking(D, user_id) ==
    IF ~Has(D, user_id) THEN Result(D, FALSE, FALSE)
    ELSE Result(Del(D, user_id), TRUE, TRUE)

clear_all_data(D) == Result(EmptyStore, TRUE, TRUE)

\* an add that takes its argument for seconds
add_minutes_as_seconds(D, user_id, user_name, minutes) ==
    LET D1 == IF Has(D, user_id) THEN D ELSE Put(D, user_id, NewRecord(user_name))
        user_data == D1.recs[user_id]
    IN  Result(Put(D1, user_id,
                   [user_data EXCEPT !.total_time = @ + minutes,
                                     !.name = user_name]),
               TRUE, TRUE)

add_minutes(D, user_id, user_name, minutes) ==
    LET D1 == IF Has(D, user_id) THEN D ELSE Put(D, user_id, NewRecord(user_name))
        user_data == D1.recs[user_id]
    IN  Result(Put(D1, user_id,
                   [user_data EXCEPT !.total_time = @ + minutes * MinuteSeconds,
                                     !.name = user_name]),
               TRUE, TRUE)

Max(a, b) == IF a >= b THEN a ELSE b

\* a subtract that creates the record of an unknown user, as add_minutes does
subtract_creating(D, user_id, minutes) ==
    LET D1 == IF Has(D, user_id) THEN D ELSE Put(D, user_id, NewRecord(""))
        user_data == D1.recs[user_id]
        new_time == Max(0, user_data.total_time - minutes * MinuteSeconds)
    IN  Result(Put(D1, user_id, [user_data EXCEPT !.total_time = new_time]),
               TRUE, TRUE)

subtract_minutes(D, user_id, minutes) ==
    IF ~Has(D, user_id) THEN Result(D, FALSE, FALSE)
    ELSE LET user_data == D.recs[user_id]
             new_time == Max(0, user_data.total_time - minutes * MinuteSeconds)
         IN  Result(Put(D, user_id, [user_data EXCEPT !.total_time = new_time]),
                    TRUE, TRUE)

\* f"{count} {unit}{'s' if count != 1 else ''}"
Part(count, unit) == [count |-> count, unit |-> unit, s |-> count # 1]

\* a format that puts the s after counts above 1 only
format_time_plural_above_one(seconds) ==
    IF seconds < 0 THEN <<[count |-> 0, unit |-> "Segundo", s |-> TRUE]>>
    ELSE LET hours == seconds \div 3600
             minutes == (seconds % 3600) \div 60
             secs == seconds % 60
             P(count, unit) == [count |-> count, unit |-> unit, s |-> count > 1]
             parts1 == IF hours > 0 THEN <<P(hours, "Hora")>> ELSE <<>>
             parts2 == IF minutes > 0 THEN Append(parts1, P(minutes, "Minuto")) ELSE parts1
             parts3 == IF secs > 0 \/ parts2 = <<>>
                       THEN Append(parts2, P(secs, "Segundo")) ELSE parts2
         IN  parts3

\* the parts that ", ".join puts together, in their order
format_time_human(seconds) ==
    IF seconds < 0 THEN <<[count |-> 0, unit |-> "Segundo", s |-> TRUE]>>
    ELSE LET hours == seconds \div 3600
             minutes == (seconds % 3600) \div 60
             secs == seconds % 60
             parts1 == IF hours > 0 THEN <<Part(hours, "Hora")>> ELSE <<>>
             parts2 == IF minutes > 0 THEN Append(parts1, Part(minutes, "Minuto")) ELSE parts1
             parts3 == IF secs > 0 \/ parts2 = <<>>
                       THEN Append(parts2, Part(secs, "Segundo")) ELSE parts2
         IN  parts3

\* a save that keeps in the file the records that the store no longer has
save_data_merging(D, old_disk, saved) ==
    IF ~saved THEN old_disk
    ELSE LET gone == SelectSeq(old_disk.keys, LAMBDA k : ~Has(D, k))
         IN  [keys |-> D.keys \o gone,
              recs |-> [k \in DOMAIN D.recs \cup DOMAIN old_disk.recs |->
                           IF Has(D, k) THEN D.recs[k] ELSE old_disk.recs[k]]]

\* save_data: the whole store overwrites the file
save_data(D, old_disk, saved) == IF saved THEN D ELSE old_disk

\* ------------------------------------------------------------------------
\* Milestones (src/bot.py)
\* ------------------------------------------------------------------------
SetMax(S) == CHOOSE x \in S : \A y \in S : y <= x

\* the hours h in 1..total_hours whose threshold h * 3600 is not in the list
missing_milestones(notified_milestones, total_hours) ==
    {h \in 1..total_hours : h * Hour \notin notified_milestones}

\* only the threshold that is notified gets marked
MarkHighest(notified_milestones, hours) ==
    notified_milestones \cup {SetMax(hours) * Hour}

MarkAll(notified_milestones, hours) ==
    notified_milestones \cup {h * Hour : h \in hours}

\* has_unlimited_time_role of the member with this id; a user who is not in
\* the guild has no role.  role: whether the member holds the role just now.
has_unlimited_time_role(user_id, role) == user_id \in Members /\ role

Checked(D, s, hours, r) == [data |-> D, saved |-> s, notify |-> hours, stop_ret |-> r]

\* the check without the test of the session's length
check_time_milestone_any_session(D, user_id, now, has_unlimited_role) ==
    IF ~Has(D, user_id) THEN Checked(D, FALSE, 0, FALSE)
    ELSE
    LET user_data == D.recs[user_id]
        session_time ==
            IF user_data.is_paused /\ user_data.pause_start # None
            THEN user_data.pause_start - user_data.last_start
            ELSE now - user_data.last_start
        total_time == get_total_time(D, user_id, now)
        notified_milestones == user_data.notified_milestones
        total_hours == total_time \div Hour
        hour_milestone == total_hours * Hour
        missing == missing_milestones(notified_milestones, total_hours)
    IN  IF ~user_data.is_active THEN Checked(D, FALSE, 0, FALSE)
        ELSE IF user_data.last_start = None THEN Checked(D, FALSE, 0, FALSE)
        ELSE IF missing # {} THEN
            LET D1 == Put(D, user_id,
                          [user_data EXCEPT !.notified_milestones = MarkAll(@, missing)])
                st == stop_tracking(D1, user_id, now)
            IN  Checked(st.data, TRUE, SetMax(missing), st.ret)
        ELSE IF hour_milestone \notin notified_milestones THEN
            LET D1 == Put(D, user_id,
                          [user_data EXCEPT !.notified_milestones = @ \cup {hour_milestone}])
                st == stop_tracking(D1, user_id, now)
                D2 == IF has_unlimited_role /\ Has(st.data, user_id)
                      THEN Put(st.data, user_id,
                               [st.data.recs[user_id] EXCEPT !.milestone_completed = TRUE])
                      ELSE st.data
            IN  Checked(D2, TRUE, total_hours, st.ret)
        ELSE Checked(D, FALSE, 0, FALSE)

\* check_time_milestone up to its await of channel.send; notify is the hour
\* count of the notification it goes on to send, 0 when it sends none
check_time_milestone(D, user_id, now, has_unlimited_role) ==
    IF ~Has(D, user_id) THEN Checked(D, FALSE, 0, FALSE)
    ELSE
    LET user_data == D.recs[user_id]
        session_time ==
            IF user_data.is_paused /\ user_data.pause_start # None
            THEN user_data.pause_start - user_data.last_start
            ELSE now - user_data.last_start
        total_time == get_total_time(D, user_id, now)
        notified_milestones == user_data.notified_milestones
        total_hours == total_time \div Hour
        hour_milestone == total_hours * Hour
        missing == missing_milestones(notified_milestones, total_hours)
    IN  IF ~user_data.is_active THEN Checked(D, FALSE, 0, FALSE)
        ELSE IF user_data.last_start = None THEN Checked(D, FALSE, 0, FALSE)
        ELSE IF session_time < Hour THEN Checked(D, FALSE, 0, FALSE)
        ELSE IF missing # {} THEN
            LET D1 == Put(D, user_id,
                          [user_data EXCEPT !.notified_milestones = MarkAll(@, missing)])
                st == stop_tracking(D1, user_id, now)
            IN  Checked(st.data, TRUE, SetMax(missing), st.ret)
        ELSE IF hour_milestone \notin notified_milestones THEN
            LET D1 == Put(D, user_id,
                          [user_data EXCEPT !.notified_milestones = @ \cup {hour_milestone}])
                st == stop_tracking(D1, user_id, now)
                D2 == IF has_unlimited_role /\ Has(st.data, user_id)
                      THEN Put(st.data, user_id,
                               [st.data.recs[user_id] EXCEPT !.milestone_completed = TRUE])
                      ELSE st.data
            IN  Checked(D2, TRUE, total_hours, st.ret)
        ELSE Checked(D, FALSE, 0, FALSE)

\* get_all_tracked_users: a shallow copy.  Each entry refers to the record
\* object that was in the store; live says that this object is still the one
\* in the store, and rec keeps what the object held when it was deleted.
NoObject == NewRecord("")

get_all_tracked_users(D) ==
    [i \in 1..Len(D.keys) |-> [uid |-> D.keys[i], live |-> TRUE, rec |-> NoObject]]

\* the entries whose record object D2 no longer holds keep the object.  The
\* first entry is the one whose send is awaited: the loop only writes to its
\* object from then on (last_milestone_check), so what it held is dropped.
Detach(snap, D, D2) ==
    [i \in DOMAIN snap |->
        IF snap[i].live /\ ~Has(D2, snap[i].uid)
        THEN [uid |-> snap[i].uid, live |-> FALSE,
              rec |-> IF i = 1 THEN NoObject ELSE D.recs[snap[i].uid]]
        ELSE snap[i]]

\* the dict the loop variable "data" refers to
ObjectOf(D, e) == IF e.live THEN D.recs[e.uid] ELSE e.rec

\* the iteration without its own saves: the file is written only if
\* stop_tracking writes it
check_missing_user_unsaved(D, e, now, has_unlimited_role) ==
    LET obj == ObjectOf(D, e)
        total_time == get_total_time(D, e.uid, now)
        notified_milestones == obj.notified_milestones
        total_hours == total_time \div Hour
        missing == missing_milestones(notified_milestones, total_hours)
    IN  IF missing = {} THEN Checked(D, FALSE, 0, FALSE)
        ELSE LET D1 == IF e.live
                       THEN Put(D, e.uid,
                                [obj EXCEPT !.notified_milestones = MarkAll(@, missing)])
                       ELSE D
                 st == stop_tracking(D1, e.uid, now)
                 D2 == IF has_unlimited_role /\ Has(st.data, e.uid)
                       THEN Put(st.data, e.uid,
                                [st.data.recs[e.uid] EXCEPT !.milestone_completed = TRUE])
                       ELSE st.data
             IN  Checked(D2, st.saved, SetMax(missing), st.ret)

\* the iteration that does not stop a user who has the role
check_missing_user_sparing_role(D, e, now, has_unlimited_role) ==
    LET obj == ObjectOf(D, e)
        total_time == get_total_time(D, e.uid, now)
        notified_milestones == obj.notified_milestones
        total_hours == total_time \div Hour
        missing == missing_milestones(notified_milestones, total_hours)
    IN  IF missing = {} THEN Checked(D, FALSE, 0, FALSE)
        ELSE LET D1 == IF e.live
                       THEN Put(D, e.uid,
                                [obj EXCEPT !.notified_milestones = MarkAll(@, missing)])
                       ELSE D
                 st == IF has_unlimited_role THEN Result(D1, FALSE, FALSE)
                       ELSE stop_tracking(D1, e.uid, now)
                 D2 == IF has_unlimited_role /\ Has(st.data, e.uid)
                       THEN Put(st.data, e.uid,
                                [st.data.recs[e.uid] EXCEPT !.milestone_completed = TRUE])
                       ELSE st.data
             IN  Checked(D2, TRUE, SetMax(missing), st.ret)

\* one iteration of check_missing_milestones up to its await of channel.send
check_missing_user(D, e, now, has_unlimited_role) ==
    LET obj == ObjectOf(D, e)
        total_time == get_total_time(D, e.uid, now)
        notified_milestones == obj.notified_milestones
        total_hours == total_time \div Hour
        missing == missing_milestones(notified_milestones, total_hours)
    IN  IF missing = {} THEN Checked(D, FALSE, 0, FALSE)
        ELSE LET D1 == IF e.live
                       THEN Put(D, e.uid,
                                [obj EXCEPT !.notified_milestones = MarkAll(@, missing)])
                       ELSE D
                 st == stop_tracking(D1, e.uid, now)
                 D2 == IF has_unlimited_role /\ Has(st.data, e.uid)
                       THEN Put(st.data, e.uid,
                                [st.data.recs[e.uid] EXCEPT !.milestone_completed = TRUE])
                       ELSE st.data
             IN  Checked(D2, TRUE, SetMax(missing), st.ret)

\* data['last_milestone_check'] = total_time, after the await
mark_checked(D, e, total_time) ==
    IF e.live
    THEN Put(D, e.uid, [D.recs[e.uid] EXCEPT !.last_milestone_check = total_time])
    ELSE D

\* the entries that check_missing_milestones passes without doing anything
RECURSIVE SkipCatchUp(_, _, _)
SkipCatchUp(D, snap, now) ==
    IF snap = <<>> THEN <<>>
    ELSE IF check_missing_user(D, Head(snap), now, FALSE).notify # 0 THEN snap
    ELSE SkipCatchUp(D, Tail(snap), now)

\* the filter of periodic_milestone_check's loop, read from the snapshot
LiveFilter(D, e) == ObjectOf(D, e).is_active /\ ~ObjectOf(D, e).is_paused

RECURSIVE SkipLive(_, _, _)
SkipLive(D, snap, now) ==
    IF snap = <<>> THEN <<>>
    ELSE IF LiveFilter(D, Head(snap))
            /\ check_time_milestone(D, Head(snap).uid, now, FALSE).notify # 0 THEN snap
    ELSE SkipLive(D, Tail(snap), now)

\* ------------------------------------------------------------------------
\* State
\* ------------------------------------------------------------------------
StateOf(D, u) ==
    IF ~Has(D, u) THEN "Absent"
    ELSE IF D.recs[u].is_active /\ D.recs[u].is_paused THEN "Both"
    ELSE IF D.recs[u].is_active THEN "Running"
    ELSE IF D.recs[u].is_paused THEN "Paused"
    ELSE "Idle"

Call(op, u, r, n) == [op |-> op, user |-> u, ret |-> r, n |-> n]

\* the store is empty and the bot is connected: on_connect has run once and
\* the task of the scanner sleeps
Init ==
    /\ milestone_check_task = 1
    /\ scanner_tasks = 1
    /\ notifying = {}
    /\ data = EmptyStore
    /\ disk = EmptyStore
    /\ clock = 0
    /\ lastCall = Call("init", 0, TRUE, 0)
    /\ running_time = [u \in Users |-> 0]
    /\ sent = [u \in Users |-> <<>>]
    /\ scan_pc = "sleep"
    /\ milestone_check_count = 0
    /\ tracked_users = <<>>
    /\ scan_total = 0
    /\ pending_check = {}

scanner_vars == <<scan_pc, milestone_check_count, tracked_users, scan_total>>

\* the store and the file after a TimeTracker method returned r
Returned(r) ==
    /\ data' = r.data
    /\ disk' = save_data(r.data, disk, r.saved)

\* ------------------------------------------------------------------------
\* The ledger called directly (SpecLedger, SpecSession)
\* ------------------------------------------------------------------------
\* a start that would open a session beyond MaxSessions is not issued
MayStart(D, u) ==
    Has(D, u) /\ StateOf(D, u) = "Idle" => Len(D.recs[u].sessions) < MaxSessions

\* a pause that would pass MaxPauses is not issued
MayPause(D, u) ==
    Has(D, u) /\ D.recs[u].is_active => D.recs[u].pause_count < MaxPauses

\* an adjustment that would take total_time past MaxTotal half hours, or
\* below MaxDebt half hours under zero, is not issued
MayAdjust(D, u, seconds) ==
    LET t == (IF Has(D, u) THEN D.recs[u].total_time ELSE 0) + seconds
    IN  t <= MaxTotal * TimeStep /\ t >= 0 - MaxDebt * TimeStep

\* the observer forgets a user whose record is gone
Forget(f, D, zero) == [u \in Users |-> IF Has(D, u) THEN f[u] ELSE zero]

StartTracking(u, name) ==
    /\ MayStart(data, u)
    /\ LET r == start_tracking(data, u, name, clock)
       IN  /\ Returned(r)
           /\ lastCall' = Call("start", u, r.ret, 0)
    /\ UNCHANGED <<clock, running_time, sent, scanner_vars, pending_check, task_vars>>

StopTracking(u) ==
    /\ LET r == stop_tracking(data, u, clock)
       IN  /\ Returned(r)
           /\ lastCall' = Call("stop", u, r.ret, 0)
    /\ UNCHANGED <<clock, running_time, sent, scanner_vars, pending_check, task_vars>>

PauseTracking(u) ==
    /\ MayPause(data, u)
    /\ LET r == pause_tracking(data, u, clock)
       IN  /\ Returned(r)
           /\ lastCall' = Call("pause", u, r.ret, 0)
    /\ UNCHANGED <<clock, running_time, sent, scanner_vars, pending_check, task_vars>>

ResumeTracking(u) ==
    /\ LET r == resume_tracking(data, u, clock)
       IN  /\ Returned(r)
           /\ lastCall' = Call("resume", u, r.ret, 0)
    /\ UNCHANGED <<clock, running_time, sent, scanner_vars, pending_check, task_vars>>

ResetUserTime(u) ==
    /\ LET r == reset_user_time(data, u)
       IN  /\ Returned(r)
           /\ lastCall' = Call("reset", u, r.ret, 0)
           /\ running_time' = IF r.ret THEN [running_time EXCEPT ![u] = 0]
                              ELSE running_time
    /\ UNCHANGED <<clock, sent, scanner_vars, pending_check, task_vars>>

ResetAllUserTimes ==
    /\ LET r == reset_all_user_times(data)
       IN  /\ data' = r.data
           /\ disk' = save_data(r.data, disk, r.count > 0)
           /\ lastCall' = Call("reset_all", 0, TRUE, r.count)
           /\ running_time' = [u \in Users |-> 0]
    /\ UNCHANGED <<clock, sent, scanner_vars, pending_check, task_vars>>

CancelUserTracking(u) ==
    /\ LET r == cancel_user_tracking(data, u)
       IN  /\ Returned(r)
           /\ lastCall' = Call("cancel", u, r.ret, 0)
           /\ running_time' = Forget(running_time, r.data, 0)
    /\ UNCHANGED <<clock, sent, scanner_vars, pending_check, task_vars>>

ClearAllData ==
    /\ LET r == clear_all_data(data)
       IN  /\ Returned(r)
           /\ lastCall' = Call("clear_all", 0, r.ret, 0)
           /\ running_time' = Forget(running_time, r.data, 0)
    /\ UNCHANGED <<clock, sent, scanner_vars, pending_check, task_vars>>

AddMinutes(u, name, minutes) ==
    /\ MayAdjust(data, u, minutes * MinuteSeconds)
    /\ LET r == add_minutes(data, u, name, minutes)
       IN  /\ Returned(r)
           /\ lastCall' = Call("add", u, r.ret, 0)
    /\ UNCHANGED <<clock, running_time, sent, scanner_vars, pending_check, task_vars>>

SubtractMinutes(u, minutes) ==
    /\ MayAdjust(data, u, 0 - minutes * MinuteSeconds)
    /\ LET r == subtract_minutes(data, u, minutes)
       IN  /\ Returned(r)
           /\ lastCall' = Call("subtract", u, r.ret, 0)
    /\ UNCHANGED <<clock, running_time, sent, scanner_vars, pending_check, task_vars>>

\* datetime.now() moves on by half an hour
Tick ==
    /\ clock < MaxClock * TimeStep
    /\ clock' = clock + TimeStep
    /\ lastCall' = Call("tick", 0, TRUE, 0)
    /\ UNCHANGED <<data, disk, running_time, sent, scanner_vars, pending_check, task_vars>>

\* the same step, with the observer adding the half hour to every Running user
TickObserved ==
    /\ clock < MaxClock * TimeStep
    /\ clock' = clock + TimeStep
    /\ lastCall' = Call("tick", 0, TRUE, 0)
    /\ running_time' = [u \in Users |->
                          IF StateOf(data, u) = "Running"
                          THEN running_time[u] + TimeStep ELSE running_time[u]]
    /\ UNCHANGED <<data, disk, sent, scanner_vars, pending_check, task_vars>>

GetTotalTime(u) ==
    /\ lastCall' = Call("get_total_time", u, TRUE, get_total_time(data, u, clock))
    /\ UNCHANGED <<data, disk, clock, running_time, sent, scanner_vars, pending_check, task_vars>>

GetUserData(u) ==
    /\ LET r == get_user_data(data, u)
       IN  /\ Returned(r)
           /\ lastCall' = Call("get_user_data", u, r.ret, 0)
    /\ UNCHANGED <<clock, running_time, sent, scanner_vars, pending_check, task_vars>>

GetPauseCount(u) ==
    /\ lastCall' = Call("get_pause_count", u, TRUE, get_pause_count(data, u))
    /\ UNCHANGED <<data, disk, clock, running_time, sent, scanner_vars, pending_check, task_vars>>

GetPausedDuration(u) ==
    /\ lastCall' = Call("get_paused_duration", u, TRUE, get_paused_duration(data, u, clock))
    /\ UNCHANGED <<data, disk, clock, running_time, sent, scanner_vars, pending_check, task_vars>>

\* the four session operations on the guild member
SessionCall ==
    \E u \in Members :
        \/ \E name \in Names : StartTracking(u, name)
        \/ StopTracking(u)
        \/ PauseTracking(u)
        \/ ResumeTracking(u)

NextSession ==
    \/ SessionCall
    \/ TickObserved

SpecSession == Init /\ [][NextSession]_vars

\* C1: right after a successful stop, total_time of the user is the time the
\* user has spent Running since the record was created (the sum of the
\* lengths of the intervals from a start or resume to the next pause or
\* stop); the time spent Paused or Idle is not in it.
C1_StopBanksRunningTime ==
    \A u \in Members :
        lastCall.op = "stop" /\ lastCall.user = u /\ lastCall.ret
            => /\ Has(data, u)
               /\ data.recs[u].total_time = running_time[u]

\* a successful stop of a user who was paused before and whose total is
\* positive and less than the time since the record was created
C1_Witness ==
    /\ lastCall.op = "stop" /\ lastCall.user = 1 /\ lastCall.ret
    /\ data.recs[1].pause_count >= 1
    /\ data.recs[1].total_time > 0
    /\ data.recs[1].total_time < clock

\* every ledger operation; records are only ever created for the guild
\* member, the other id stays unknown to the store
\* C15: while a user stays Paused, get_total_time is the same before and
\* after the clock advances; get_total_time right after a resume equals
\* get_total_time right before it; and the time spent Paused is in neither
\* total_time nor the derived total, which is the time spent Running.
C15_PausedTimeIsDead ==
    [][\A u \in Members :
          /\ StateOf(data, u) = "Paused" /\ StateOf(data', u) = "Paused"
             => get_total_time(data', u, clock') = get_total_time(data, u, clock)
          /\ StateOf(data, u) = "Paused" /\ ResumeTracking(u)
             => /\ lastCall'.ret
                /\ get_total_time(data', u, clock') = get_total_time(data, u, clock)
                /\ data'.recs[u].total_time = data.recs[u].total_time
          /\ Has(data', u)
             => get_total_time(data', u, clock') = running_time'[u]]_vars

\* the clock has advanced over a user who is Paused, after some time Running
C15_Witness ==
    /\ lastCall.op = "tick"
    /\ StateOf(data, 1) = "Paused"
    /\ clock - data.recs[1].pause_start >= TimeStep
    /\ data.recs[1].total_time >= TimeStep
    /\ get_total_time(data, 1, clock) = data.recs[1].total_time

\* the session operations on the guild member, with the four accessors
\* called on the member and on a user the store has never seen
NextAccess ==
    \/ SessionCall
    \/ \E u \in Members : CancelUserTracking(u)
    \/ Tick
    \/ \E u \in Users : GetTotalTime(u)
    \/ \E u \in Users : GetUserData(u)
    \/ \E u \in Users : GetPauseCount(u)
    \/ \E u \in Users : GetPausedDuration(u)

SpecAccess == Init /\ [][NextAccess]_vars

\* C17: get_total_time, get_user_data, get_pause_count and
\* get_paused_duration leave the store in memory and the file as they are
\* and create no record; for a user without a record they return 0, None,
\* 0 and 0.
C17_AccessorsArePure ==
    [][\A u \in Users :
          GetTotalTime(u) \/ GetUserData(u) \/ GetPauseCount(u) \/ GetPausedDuration(u)
          => /\ data' = data
             /\ disk' = disk
             /\ Has(data', u) <=> Has(data, u)
             /\ ~Has(data, u)
                => /\ lastCall'.n = 0
                   /\ lastCall'.op = "get_user_data" => ~lastCall'.ret]_vars

\* get_user_data has just returned None for the unknown user, while the
\* member has a record, and neither store has a record for the unknown user
C17_Witness ==
    /\ lastCall.op = "get_user_data" /\ lastCall.user = 2 /\ ~lastCall.ret
    /\ ~Has(data, 2) /\ ~Has(disk, 2)
    /\ StateOf(data, 1) = "Paused"
    /\ disk = data

NextLedger ==
    \/ \E u \in Members, name \in Names : StartTracking(u, name)
    \/ \E u \in Users : StopTracking(u)
    \/ \E u \in Users : PauseTracking(u)
    \/ \E u \in Users : ResumeTracking(u)
    \/ \E u \in Users : ResetUserTime(u)
    \/ ResetAllUserTimes
    \/ \E u \in Users : CancelUserTracking(u)
    \/ ClearAllData
    \/ \E u \in Members, name \in Names, minutes \in LedgerMinutes : AddMinutes(u, name, minutes)
    \/ \E u \in Users, minutes \in LedgerMinutes : SubtractMinutes(u, minutes)
    \/ Tick

SpecLedger == Init /\ [][NextLedger]_vars

\* the ledger call that sets lastCall in this step is op on user u
Calls(op, u) == lastCall'.op = op /\ lastCall'.user = u

C12_TotalNeverNegative ==
    \A u \in Users : Has(data, u) => data.recs[u].total_time >= 0

\* C13 (as stated): add_minutes and subtract_minutes called with minutes <= 0
\* leave the store as it was.
C13_NonPositiveIgnored ==
    [][\A u \in Users, name \in Names, minutes \in LedgerMinutes :
          /\ minutes <= 0
          /\ AddMinutes(u, name, minutes) \/ SubtractMinutes(u, minutes)
          => data' = data]_vars

\* the clock values from now to the end of the run
Later == {t \in 0..(MaxClock * TimeStep) : t >= clock /\ t % TimeStep = 0}

\* C16: for a Running user and clock values t1 <= t2 with the store as it
\* is, get_total_time at t2 minus get_total_time at t1 is t2 - t1, and
\* get_total_time is total_time + (now - last_start), so it does not decrease.
C16_RunningTotalFollowsClock ==
    \A u \in Users :
        StateOf(data, u) = "Running" =>
            /\ get_total_time(data, u, clock) =
                   data.recs[u].total_time + (clock - data.recs[u].last_start)
            /\ \A t1 \in Later, t2 \in Later :
                   t1 <= t2 =>
                       /\ get_total_time(data, u, t2) - get_total_time(data, u, t1) = t2 - t1
                       /\ get_total_time(data, u, t2) >= get_total_time(data, u, t1)

\* the clock has advanced twice over a Running user with banked time
C16_Witness ==
    /\ lastCall.op = "tick"
    /\ StateOf(data, 1) = "Running"
    /\ data.recs[1].total_time > 0
    /\ clock - data.recs[1].last_start = 2 * TimeStep
    /\ get_total_time(data, 1, clock) = data.recs[1].total_time + 2 * TimeStep

\* everything in a record but total_time and name
Untouched(rec) == [rec EXCEPT !.total_time = 0, !.name = ""]

\* C14: add_minutes with minutes > 0 adds exactly 60 * minutes to total_time,
\* starting from a new Idle record with total_time 0 when the user has none;
\* subtract_minutes with minutes > 0 sets total_time to the larger of 0 and
\* total_time - 60 * minutes; neither changes the flags, last_start,
\* pause_start, pause_count, notified_milestones or sessions.
C14_AdjustmentsAreExact ==
    [][\A u \in Users, name \in Names, minutes \in LedgerMinutes :
          /\ minutes > 0 /\ AddMinutes(u, name, minutes)
             => /\ lastCall'.ret /\ Has(data', u)
                /\ data'.recs[u].total_time =
                      (IF Has(data, u) THEN data.recs[u].total_time ELSE 0) + 60 * minutes
                /\ Untouched(data'.recs[u]) =
                      (IF Has(data, u) THEN Untouched(data.recs[u])
                       ELSE [name |-> "", total_time |-> 0, sessions |-> <<>>,
                             is_active |-> FALSE, is_paused |-> FALSE,
                             pause_count |-> 0, notified_milestones |-> {},
                             milestone_completed |-> FALSE, last_start |-> None,
                             pause_start |-> None, last_milestone_check |-> None,
                             is_external_user |-> FALSE])
          /\ minutes > 0 /\ SubtractMinutes(u, minutes) /\ Has(data, u)
             => /\ lastCall'.ret /\ Has(data', u)
                /\ data'.recs[u].total_time =
                      (IF data.recs[u].total_time - 60 * minutes > 0
                       THEN data.recs[u].total_time - 60 * minutes ELSE 0)
                /\ Untouched(data'.recs[u]) = Untouched(data.recs[u])
                /\ data'.recs[u].name = data.recs[u].name]_vars

\* an add has just raised the total of a Paused record, which is still
\* Paused with its pause_start and its pause_count
C14_Witness ==
    /\ lastCall.op = "add" /\ lastCall.user = 1 /\ lastCall.ret
    /\ StateOf(data, 1) = "Paused"
    /\ data.recs[1].pause_start # None
    /\ data.recs[1].pause_count >= 1
    /\ data.recs[1].total_time >= 2 * Hour

\* two users with records in every pair of states, and reset_all_user_times
NextResetAll ==
    \/ \E u \in Users, name \in Names : StartTracking(u, name)
    \/ \E u \in Users : PauseTracking(u)
    \/ \E u \in Users, name \in Names, minutes \in CommandMinutes : AddMinutes(u, name, minutes)
    \/ Tick
    \/ ResetAllUserTimes

SpecResetAll == Init /\ [][NextResetAll]_vars

\* C18: reset_all_user_times returns the number of records the store held
\* before the call and removes none of them; afterwards every record has
\* total_time 0 and pause_count 0 and is Idle, whichever of Running, Paused
\* and Idle the records were before.
C18_ResetAllResetsEveryRecord ==
    [][ResetAllUserTimes
          => /\ lastCall'.n = Cardinality(DOMAIN data.recs)
             /\ DOMAIN data'.recs = DOMAIN data.recs
             /\ data'.keys = data.keys
             /\ \A u \in DOMAIN data'.recs :
                    /\ data'.recs[u].total_time = 0
                    /\ data'.recs[u].pause_count = 0
                    /\ StateOf(data', u) = "Idle"]_vars

\* reset_all_user_times has just returned 2: both users still have their
\* records, zeroed and Idle, in the store and in the file
C18_Witness ==
    /\ lastCall.op = "reset_all" /\ lastCall.n = 2
    /\ \A u \in Users :
           /\ StateOf(data, u) = "Idle"
           /\ data.recs[u].total_time = 0
           /\ data.recs[u].pause_count = 0
    /\ disk = data
    /\ clock > 0

\* C20: the store starts without records, and a step leaves user u with a
\* record exactly when it is a start_tracking or add_minutes call for u, or
\* u had a record and the step is neither a cancel_user_tracking call for u
\* nor clear_all_data: a record exists exactly when start or add was called
\* for the user since the last cancel or clear.  After a cancel that returns
\* true the record is gone from the store and the file, get_total_time and
\* get_pause_count return 0 and another cancel returns false; a start for a
\* user without a record creates one with total_time 0, pause_count 0, no
\* notified_milestones and no sessions; clear_all_data leaves the store empty.
C20_RecordLifetime ==
    /\ \A u \in Users : ~Has(data, u)
    /\ [][/\ \A u \in Users :
              /\ Has(data', u) <=>
                     \/ Calls("start", u) \/ Calls("add", u)
                     \/ Has(data, u) /\ ~Calls("cancel", u) /\ lastCall'.op # "clear_all"
              /\ CancelUserTracking(u)
                 => /\ lastCall'.ret <=> Has(data, u)
                    /\ ~Has(data', u) /\ ~Has(disk', u)
                    /\ get_total_time(data', u, clock') = 0
                    /\ get_pause_count(data', u) = 0
                    /\ ~cancel_user_tracking(data', u).ret
              /\ ~Has(data, u) /\ (\E name \in Names : StartTracking(u, name))
                 => /\ lastCall'.ret
                    /\ StateOf(data', u) = "Running"
                    /\ data'.recs[u].total_time = 0
                    /\ data'.recs[u].pause_count = 0
                    /\ data'.recs[u].notified_milestones = {}
                    /\ data'.recs[u].sessions = <<>>
          /\ ClearAllData => data' = EmptyStore /\ disk' = EmptyStore]_vars

\* a cancel has just removed the member's record, after the clock had moved:
\* neither the store nor the file holds it and the accessors return 0
C20_Witness ==
    /\ lastCall.op = "cancel" /\ lastCall.user = 1 /\ lastCall.ret
    /\ ~Has(data, 1) /\ ~Has(disk, 1)
    /\ get_total_time(data, 1, clock) = 0
    /\ get_pause_count(data, 1) = 0
    /\ clock > 0

\* the calls that C8 is about: the state the call finds makes it fail
Refused(op, u) ==
    CASE op = "start" -> StateOf(data, u) \in {"Running", "Paused"}
      [] op \in {"stop", "pause"} -> StateOf(data, u) # "Running"
      [] op = "resume" -> StateOf(data, u) # "Paused"
      [] OTHER -> ~Has(data, u)

\* C8: start on a Running or Paused user, stop or pause on a user who is not
\* Running, resume on a user who is not Paused, and stop, pause, resume,
\* subtract, reset and cancel on an unknown user return false, leave the store
\* and the file as they were and create no record.
C8_RefusedCallsChangeNothing ==
    [][\A u \in Users :
       \A op \in {"start", "stop", "pause", "resume", "subtract", "reset", "cancel"} :
          Calls(op, u) /\ Refused(op, u)
          => /\ lastCall'.ret = FALSE
             /\ data' = data
             /\ disk' = disk]_vars

\* a cancel for the unknown user has returned false while the store holds the
\* Paused record of the other user, both in memory and in the file
C8_Witness ==
    /\ lastCall.op = "cancel" /\ lastCall.user = 2 /\ ~lastCall.ret
    /\ ~Has(data, 2)
    /\ StateOf(data, 1) = "Paused"
    /\ disk = data

\* ------------------------------------------------------------------------
\* The command handlers (src/bot.py), each up to its first await
\* ------------------------------------------------------------------------
Min(a, b) == IF a <= b THEN a ELSE b

\* the proportional formula, capped at one hour: int((minutes / 60) * 3),
\* at least 1 for a positive time
calculate_credits_from_time(member, time_minutes) ==
    LET max_time_minutes == 1 * 60
        credits_per_session == 3
        effective_time == Min(time_minutes, max_time_minutes)
    IN  IF effective_time > 0
        THEN Max(1, (effective_time * credits_per_session) \div max_time_minutes)
        ELSE 0

\* credits by the proportional formula on the whole minutes of the total
calculate_credits_proportional(total_seconds, has_special_role) ==
    calculate_credits_from_time(has_special_role, total_seconds \div MinuteSeconds)

\* total_hours = total_seconds / 3600 is compared with 2.0 and 1.0
calculate_credits(total_seconds, has_special_role) ==
    IF total_seconds < 0 THEN 0
    ELSE IF total_seconds >= 2 * Hour THEN TwoHourCredits
    ELSE IF total_seconds >= 1 * Hour THEN OneHourCredits
    ELSE 0

CeilingHours(has_unlimited_role) ==
    IF has_unlimited_role THEN ElevatedCeilingHours ELSE StandardCeilingHours

iniciar_tiempo(D, user_id, name, has_unlimited_role, now) ==
    IF get_total_time(D, user_id, now) >= CeilingHours(has_unlimited_role) * Hour
    THEN Result(D, FALSE, FALSE)
    ELSE IF Has(D, user_id) /\ D.recs[user_id].is_paused THEN Result(D, FALSE, FALSE)
    ELSE start_tracking(D, user_id, name, now)

iniciar_prefix(D, user_id, name, has_unlimited_role, now) ==
    IF user_id \in Members
    THEN iniciar_tiempo(D, user_id, name, has_unlimited_role, now)
    ELSE LET r == start_tracking(D, user_id, name, now)
         IN  IF r.ret
             THEN Result(Put(r.data, user_id,
                             [r.data.recs[user_id] EXCEPT !.is_external_user = TRUE]),
                         TRUE, TRUE)
             ELSE r

\* a pause command that cancels only past 3 pauses
pausar_cancelling_past_three(D, user_id, now) ==
    LET r == pause_tracking(D, user_id, now)
        pause_count == get_pause_count(r.data, user_id)
    IN  IF r.ret /\ pause_count > AutoCancelPauses
        THEN [data |-> cancel_user_tracking(r.data, user_id).data, ret |-> TRUE,
              saved |-> TRUE, notice |-> "auto_cancel", paused |-> r.data]
        ELSE [data |-> r.data, ret |-> r.ret, saved |-> r.saved,
              notice |-> IF r.ret THEN "pause" ELSE "none", paused |-> r.data]

\* pausar_tiempo: the pause, and the cancel once pause_count is 3
pausar_tiempo(D, user_id, now) ==
    LET r == pause_tracking(D, user_id, now)
        pause_count == get_pause_count(r.data, user_id)
    IN  IF r.ret /\ pause_count >= AutoCancelPauses
        THEN [data |-> cancel_user_tracking(r.data, user_id).data, ret |-> TRUE,
              saved |-> TRUE, notice |-> "auto_cancel", paused |-> r.data]
        ELSE [data |-> r.data, ret |-> r.ret, saved |-> r.saved,
              notice |-> IF r.ret THEN "pause" ELSE "none", paused |-> r.data]

\* a start command that would open a session beyond MaxStops is not issued
MayIniciar(D, u) ==
    Has(D, u) /\ StateOf(D, u) = "Idle" => Len(D.recs[u].sessions) < MaxStops

\* the prefix commands look an external user up in the store first
Known(D, user_id) == IF user_id \in Members THEN TRUE ELSE Has(D, user_id)

bot_vars == <<clock, running_time>>

IniciarTiempo(u, name, role) ==
    /\ MayIniciar(data, u)
    /\ LET r == iniciar_tiempo(data, u, name, has_unlimited_time_role(u, role), clock)
       IN  /\ Returned(r)
           /\ lastCall' = Call("start", u, r.ret, 0)
    /\ UNCHANGED <<bot_vars, sent, scanner_vars, pending_check, task_vars>>

IniciarPrefix(u, name, role) ==
    /\ MayIniciar(data, u)
    /\ LET r == iniciar_prefix(data, u, name, has_unlimited_time_role(u, role), clock)
       IN  /\ Returned(r)
           /\ lastCall' = Call("start", u, r.ret, 0)
    /\ UNCHANGED <<bot_vars, sent, scanner_vars, pending_check, task_vars>>

PausarTiempo(u) ==
    /\ LET r == pausar_tiempo(data, u, clock)
       IN  /\ Returned(r)
           /\ lastCall' = Call(IF r.notice = "auto_cancel" THEN "auto_cancel" ELSE "pause",
                               u, r.ret, get_pause_count(r.paused, u))
           /\ sent' = Forget(sent, r.data, <<>>)
           /\ tracked_users' = Detach(tracked_users, r.paused, r.data)
    /\ UNCHANGED <<bot_vars, scan_pc, milestone_check_count, scan_total, pending_check, task_vars>>

DespausarTiempo(u) ==
    /\ Known(data, u)
    /\ LET r == resume_tracking(data, u, clock)
       IN  /\ Returned(r)
           /\ lastCall' = Call("resume", u, r.ret, 0)
    /\ UNCHANGED <<bot_vars, sent, scanner_vars, pending_check, task_vars>>

\* sumar_minutos up to its await; its check_time_milestone follows in SumarCheck
SumarMinutos(u, name, minutes) ==
    /\ minutes > 0
    /\ MayAdjust(data, u, minutes * MinuteSeconds)
    /\ u \notin pending_check
    /\ LET r == add_minutes(data, u, name, minutes)
       IN  /\ Returned(r)
           /\ lastCall' = Call("add", u, r.ret, 0)
    /\ pending_check' = pending_check \cup {u}
    /\ UNCHANGED <<bot_vars, sent, scanner_vars, task_vars>>

\* the check_time_milestone that ends sumar_minutos, up to its await
SumarCheck(u, role) ==
    /\ u \in pending_check
    /\ LET r == check_time_milestone(data, u, clock, has_unlimited_time_role(u, role))
       IN  /\ Returned(r)
           /\ lastCall' = Call("add_check", u, r.stop_ret, r.notify)
           /\ sent' = IF r.notify # 0 THEN [sent EXCEPT ![u] = Append(@, r.notify)]
                      ELSE sent
    /\ pending_check' = pending_check \ {u}
    /\ UNCHANGED <<bot_vars, scanner_vars, task_vars>>

RestarMinutos(u, minutes) ==
    /\ minutes > 0
    /\ Known(data, u)
    /\ LET r == subtract_minutes(data, u, minutes)
       IN  /\ Returned(r)
           /\ lastCall' = Call("subtract", u, r.ret, 0)
    /\ UNCHANGED <<bot_vars, sent, scanner_vars, pending_check, task_vars>>

ReiniciarTiempo(u) ==
    /\ LET r == reset_user_time(data, u)
       IN  /\ Returned(r)
           /\ lastCall' = Call("reset", u, r.ret, 0)
           /\ sent' = IF r.ret THEN [sent EXCEPT ![u] = <<>>] ELSE sent
    /\ UNCHANGED <<bot_vars, scanner_vars, pending_check, task_vars>>

ReiniciarTodosTiempos ==
    /\ LET r == reset_all_user_times(data)
       IN  /\ data' = r.data
           /\ disk' = save_data(r.data, disk, r.count > 0)
           /\ lastCall' = Call("reset_all", 0, r.count > 0, r.count)
           /\ sent' = [u \in Users |-> <<>>]
    /\ UNCHANGED <<bot_vars, scanner_vars, pending_check, task_vars>>

LimpiarBaseDatosConfirmar ==
    /\ Len(data.keys) # 0
    /\ LET r == clear_all_data(data)
       IN  /\ Returned(r)
           /\ lastCall' = Call("clear_all", 0, r.ret, 0)
           /\ tracked_users' = Detach(tracked_users, data, r.data)
    /\ sent' = [u \in Users |-> <<>>]
    /\ UNCHANGED <<bot_vars, scan_pc, milestone_check_count, scan_total, pending_check, task_vars>>

CancelarTiempo(u) ==
    /\ Has(data, u)
    /\ LET r == cancel_user_tracking(data, u)
       IN  /\ Returned(r)
           /\ lastCall' = Call("cancel", u, r.ret, 0)
           /\ tracked_users' = Detach(tracked_users, data, r.data)
           /\ sent' = Forget(sent, r.data, <<>>)
    /\ UNCHANGED <<bot_vars, scan_pc, milestone_check_count, scan_total, pending_check, task_vars>>

\* ------------------------------------------------------------------------
\* periodic_milestone_check: from one await to the next
\* ------------------------------------------------------------------------
\* the loop over the active users, from the entries snap on, in store D
RunLive(D, dsk, snap, role) ==
    LET rest == SkipLive(D, snap, clock)
    IN  IF rest = <<>>
        THEN /\ data' = D
             /\ disk' = dsk
             /\ scan_pc' = "sleep"
             /\ tracked_users' = <<>>
             /\ lastCall' = Call("scan", 0, FALSE, 0)
             /\ sent' = sent
        ELSE LET uid == Head(rest).uid
                 r == check_time_milestone(D, uid, clock, has_unlimited_time_role(uid, role))
             IN  /\ data' = r.data
                 /\ disk' = save_data(r.data, dsk, r.saved)
                 /\ scan_pc' = "live_send"
                 /\ tracked_users' = rest
                 /\ lastCall' = Call("live", uid, r.stop_ret, r.notify)
                 /\ sent' = [sent EXCEPT ![uid] = Append(@, r.notify)]

\* check_missing_milestones from the entries snap on, then the live loop
RunCatchUp(D, dsk, snap, role) ==
    LET rest == SkipCatchUp(D, snap, clock)
    IN  IF rest = <<>>
        THEN /\ RunLive(D, dsk, get_all_tracked_users(D), role)
             /\ scan_total' = 0
        ELSE LET uid == Head(rest).uid
                 r == check_missing_user(D, Head(rest), clock,
                                         has_unlimited_time_role(uid, role))
             IN  /\ data' = r.data
                 /\ disk' = save_data(r.data, dsk, r.saved)
                 /\ scan_pc' = "cu_send"
                 /\ tracked_users' = rest
                 /\ scan_total' = get_total_time(D, uid, clock)
                 /\ lastCall' = Call("catch_up", uid, r.stop_ret, r.notify)
                 /\ sent' = [sent EXCEPT ![uid] = Append(@, r.notify)]

\* asyncio.sleep(5) returns: the counter, the catch-up pass on every 12th
\* round starting with the first, then the live loop
Wake(role) ==
    /\ scan_pc = "sleep"
    /\ milestone_check_count' = (milestone_check_count + 1) % CatchUpPeriod
    /\ IF (milestone_check_count + 1) % CatchUpPeriod = 1
       THEN RunCatchUp(data, disk, get_all_tracked_users(data), role)
       ELSE RunLive(data, disk, get_all_tracked_users(data), role) /\ scan_total' = 0
    /\ UNCHANGED <<bot_vars, pending_check, task_vars>>

\* the send of check_missing_milestones is over (delivered, failed or timed out)
CatchUpSendDone(role) ==
    /\ scan_pc = "cu_send"
    /\ LET D == mark_checked(data, Head(tracked_users), scan_total)
       IN  RunCatchUp(D, D, Tail(tracked_users), role)
    /\ UNCHANGED <<bot_vars, milestone_check_count, pending_check, task_vars>>

\* the send of check_time_milestone in the live loop is over
LiveSendDone(role) ==
    /\ scan_pc = "live_send"
    /\ RunLive(data, disk, Tail(tracked_users), role)
    /\ UNCHANGED <<bot_vars, milestone_check_count, scan_total, pending_check, task_vars>>

\* datetime.now() moves on by half an hour; a send that the scanner awaits
\* is cut off by wait_for(timeout=10.0) long before
BotTick ==
    /\ scan_pc = "sleep"
    /\ Tick

\* the slash commands, issued for the guild member
Command ==
    \/ \E u \in Members, name \in Names, role \in BOOLEAN : IniciarTiempo(u, name, role)
    \/ \E u \in Members : PausarTiempo(u)
    \/ \E u \in Members : DespausarTiempo(u)
    \/ \E u \in Members, name \in Names, minutes \in CommandMinutes : SumarMinutos(u, name, minutes)
    \/ \E u \in Members, role \in BOOLEAN : SumarCheck(u, role)
    \/ \E u \in Members, minutes \in CommandMinutes : RestarMinutos(u, minutes)
    \/ \E u \in Members : ReiniciarTiempo(u)
    \/ ReiniciarTodosTiempos
    \/ LimpiarBaseDatosConfirmar
    \/ \E u \in Members : CancelarTiempo(u)

\* the prefix commands that need no running clock, issued for the guild
\* member and for the external user
PrefixCommand ==
    \/ \E u \in Users, name \in Names, minutes \in CommandMinutes : SumarMinutos(u, name, minutes)
    \/ \E u \in Users, role \in BOOLEAN : SumarCheck(u, role)
    \/ \E u \in Users, minutes \in CommandMinutes : RestarMinutos(u, minutes)
    \/ \E u \in Users : CancelarTiempo(u)

Scanner ==
    \/ \E role \in BOOLEAN : Wake(role)
    \/ \E role \in BOOLEAN : CatchUpSendDone(role)
    \/ \E role \in BOOLEAN : LiveSendDone(role)

Next ==
    \/ Command
    \/ Scanner
    \/ BotTick

Spec == Init /\ [][Next]_vars

\* this step is a scanner step, or the check that ends a sumar command, that
\* went into its notifying branch for user u and so called stop_tracking
ScannerStop(u) ==
    /\ \/ \E role \in BOOLEAN : Wake(role)
       \/ \E role \in BOOLEAN : CatchUpSendDone(role)
       \/ \E role \in BOOLEAN : LiveSendDone(role)
       \/ \E role \in BOOLEAN : SumarCheck(u, role)
    /\ lastCall'.op \in {"catch_up", "live", "add_check"}
    /\ lastCall'.user = u
    /\ lastCall'.n > 0

\* the seconds of the session of u that is open in this state
Elapsed(u) == clock - data.recs[u].last_start

\* C2: a pause command and a stop by the scanner fold the open session of a
\* Running user into total_time exactly once, in whichever order they run:
\* the one that finds the user Running returns true and adds the elapsed
\* seconds, the one that finds the user not Running returns false and leaves
\* total_time as it is.
C2_FoldsOnce ==
    [][\A u \in Members :
          /\ PausarTiempo(u) \/ ScannerStop(u)
          /\ Has(data, u)
          => IF StateOf(data, u) = "Running"
             THEN /\ lastCall'.ret
                  /\ Has(data', u) =>
                        data'.recs[u].total_time = data.recs[u].total_time + Elapsed(u)
             ELSE /\ ~lastCall'.ret
                  /\ Has(data', u)
                  /\ data'.recs[u].total_time = data.recs[u].total_time]_vars

\* the catch-up pass has just marked thresholds for a user whom a pause
\* command had paused after part of a session: its stop returned false and
\* the record is still Paused with the total the pause left
C2_Witness ==
    /\ lastCall.op = "catch_up" /\ lastCall.user = 1
    /\ lastCall.n > 0 /\ ~lastCall.ret
    /\ StateOf(data, 1) = "Paused"
    /\ data.recs[1].last_start # None
    /\ data.recs[1].pause_start > data.recs[1].last_start

\* C5: a pause command whose pause succeeds and brings pause_count to 3
\* removes the record from the store and from the file in the same step and
\* signals auto-cancelled, not paused; no state between steps holds a Paused
\* record with pause_count 3.
C5_ThirdPauseCancels ==
    [][\A u \in Members :
          /\ PausarTiempo(u) /\ StateOf(data, u) = "Running"
             /\ data.recs[u].pause_count + 1 = AutoCancelPauses
             => /\ ~Has(data', u) /\ ~Has(disk', u)
                /\ lastCall'.op = "auto_cancel" /\ lastCall'.ret
          /\ Has(data', u) /\ StateOf(data', u) = "Paused"
             => data'.recs[u].pause_count < AutoCancelPauses
          /\ PausarTiempo(u) /\ lastCall'.op = "auto_cancel"
             => lastCall'.n = AutoCancelPauses]_vars

\* the third pause of a record has just removed it with the auto-cancelled
\* outcome
C5_Witness ==
    /\ lastCall.op = "auto_cancel" /\ lastCall.user = 1 /\ lastCall.ret
    /\ lastCall.n = AutoCancelPauses
    /\ ~Has(data, 1) /\ ~Has(disk, 1)

\* stop_tracking is called by the scanner and by the check that ends sumar
StopOps == {"catch_up", "live", "add_check"}

\* the transitions C7 lists, with the operation that makes them
Listed(from, to, op) ==
    \/ from \in {"Absent", "Idle"} /\ to = "Running" /\ op = "start"
    \/ from = "Running" /\ to = "Paused" /\ op = "pause"
    \/ from = "Running" /\ to = "Idle" /\ op \in StopOps
    \/ from = "Paused" /\ to = "Running" /\ op = "resume"
    \/ to = "Idle" /\ from # "Absent" /\ op \in {"reset", "reset_all"}
    \/ to = "Absent" /\ op \in {"cancel", "clear_all", "auto_cancel"}

\* C7 (as stated): every change of a user's state is one of the listed
\* transitions.
C7_OnlyListedTransitions ==
    [][\A u \in Members :
          StateOf(data', u) # StateOf(data, u)
          => /\ lastCall'.user \in {u, 0}
             /\ Listed(StateOf(data, u), StateOf(data', u), lastCall'.op)]_vars

\* C7 (amended): every change of a user's state is one of the listed
\* transitions or the creation of an Idle record by add_minutes for a user
\* who had none.
C7_ListedOrCreatedByAdd ==
    [][\A u \in Members :
          StateOf(data', u) # StateOf(data, u)
          => /\ lastCall'.user \in {u, 0}
             /\ \/ Listed(StateOf(data, u), StateOf(data', u), lastCall'.op)
                \/ /\ StateOf(data, u) = "Absent" /\ StateOf(data', u) = "Idle"
                   /\ lastCall'.op = "add"]_vars

\* a start command for a Paused user has been refused and the user is still
\* Paused
C7_Witness ==
    /\ lastCall.op = "start" /\ lastCall.user = 1 /\ ~lastCall.ret
    /\ StateOf(data, 1) = "Paused"

\* C9: no stored record has is_active and is_paused both set.
C9_NeverActiveAndPaused ==
    \A u \in Users :
        Has(data, u) => ~(data.recs[u].is_active /\ data.recs[u].is_paused)

\* the live loop has just stopped a user who had been paused and resumed
C9_Witness ==
    /\ lastCall.op = "live" /\ lastCall.user = 1 /\ lastCall.ret
    /\ StateOf(data, 1) = "Idle"
    /\ data.recs[1].pause_count >= 1

C11_PauseStartIffPaused ==
    \A u \in Users :
        Has(data, u) =>
            (data.recs[u].pause_start # None <=> StateOf(data, u) = "Paused")

\* a resume command has just made a paused user Running and the record has
\* no pause_start any more
C11_Witness ==
    /\ lastCall.op = "resume" /\ lastCall.user = 1 /\ lastCall.ret
    /\ StateOf(data, 1) = "Running"
    /\ data.recs[1].pause_count >= 1
    /\ data.recs[1].pause_start = None

\* C19: reset_user_time on a record in any state returns true and keeps the
\* record under its key with its name; total_time and pause_count become 0,
\* sessions and notified_milestones become empty, milestone_completed is
\* cleared, the record is Idle and has neither last_start nor pause_start;
\* on a user without a record it returns false and changes nothing.  With
\* notified_milestones empty, a threshold notified before the reset is
\* notified again when the total reaches it again.
C19_ResetZeroesTheRecord ==
    [][\A u \in Members :
          ReiniciarTiempo(u)
          => IF Has(data, u)
             THEN /\ lastCall'.ret
                  /\ Has(data', u)
                  /\ data'.keys = data.keys
                  /\ data'.recs[u].name = data.recs[u].name
                  /\ data'.recs[u].total_time = 0
                  /\ data'.recs[u].pause_count = 0
                  /\ data'.recs[u].sessions = <<>>
                  /\ data'.recs[u].notified_milestones = {}
                  /\ ~data'.recs[u].milestone_completed
                  /\ StateOf(data', u) = "Idle"
                  /\ data'.recs[u].last_start = None
                  /\ data'.recs[u].pause_start = None
                  /\ disk' = data'
             ELSE /\ ~lastCall'.ret
                  /\ data' = data
                  /\ disk' = disk]_vars

\* the catch-up pass notifies two hours for the member, as the only
\* notification since the last reset, on a record that an earlier catch-up
\* notification has stamped with last_milestone_check
C19_Witness ==
    /\ lastCall.op = "catch_up" /\ lastCall.user = 1 /\ lastCall.n = 2
    /\ Has(data, 1)
    /\ data.recs[1].last_milestone_check = 2 * Hour
    /\ sent[1] = <<2>>
    /\ data.recs[1].notified_milestones # {}

\* with the clock standing still no session reaches an hour, so the live
\* loop never sends
NextPrefix ==
    \/ PrefixCommand
    \/ \E role \in BOOLEAN : Wake(role)
    \/ \E role \in BOOLEAN : CatchUpSendDone(role)

SpecPrefix == Init /\ [][NextPrefix]_vars

\* C3 (as stated): since the last reset or cancel of a user, no hour
\* threshold is notified twice for that user.
C3_OncePerThreshold ==
    \A u \in Users :
        \A i, j \in DOMAIN sent[u] : i # j => sent[u][i] # sent[u][j]

\* this step is the catch-up pass going into its notifying branch for user u
CatchUpNotifies(u) ==
    /\ \/ \E role \in BOOLEAN : Wake(role)
       \/ \E role \in BOOLEAN : CatchUpSendDone(role)
    /\ scan_pc' = "cu_send"
    /\ Head(tracked_users').uid = u

\* C4 (as stated): when the catch-up pass notifies for a user whose total
\* has h full hours, the notification is for the highest threshold that
\* the stored record lacks, afterwards the stored record holds every
\* threshold from 1 to h hours, and a user who was Running is Idle.
C4_CatchUpMarksAll ==
    [][\A u \in Users :
          CatchUpNotifies(u)
          => LET total_hours == get_total_time(data, u, clock) \div Hour
                 missing == missing_milestones(data.recs[u].notified_milestones,
                                               total_hours)
             IN  /\ missing # {}
                 /\ lastCall'.n = SetMax(missing)
                 /\ \A k \in 1..total_hours :
                        k * Hour \in data'.recs[u].notified_milestones
                 /\ StateOf(data, u) = "Running" => StateOf(data', u) = "Idle"]_vars

\* ------------------------------------------------------------------------
\* The commands that start a session
\* ------------------------------------------------------------------------
\* /iniciar_tiempo for the guild member, !iniciar for the member and for a
\* name that is not in the guild, with the commands that raise the total
NextStart ==
    \/ \E u \in Members, name \in Names, role \in BOOLEAN : IniciarTiempo(u, name, role)
    \/ \E u \in Users, name \in Names, role \in BOOLEAN : IniciarPrefix(u, name, role)
    \/ \E u \in Users, name \in Names, minutes \in CommandMinutes : SumarMinutos(u, name, minutes)
    \/ \E u \in Users, role \in BOOLEAN : SumarCheck(u, role)
    \/ \E u \in Users : PausarTiempo(u)
    \/ BotTick

SpecStart == Init /\ [][NextStart]_vars

\* C21 (as stated): a start command, slash or prefix, for a guild member or
\* for an external user, issued while get_total_time is at or over the
\* ceiling of the user's tier (1 hour, 4 hours with the role) is rejected
\* without calling start_tracking: it returns no success, changes nothing
\* and the user is not Running afterwards unless it was Running before.
C21_StartRejectedAtCeiling ==
    [][\A u \in Users, name \in Names, role \in BOOLEAN :
          /\ \/ u \in Members /\ IniciarTiempo(u, name, role)
             \/ IniciarPrefix(u, name, role)
          /\ get_total_time(data, u, clock)
                >= CeilingHours(has_unlimited_time_role(u, role)) * Hour
          => /\ ~lastCall'.ret
             /\ data' = data
             /\ StateOf(data', u) = "Running" => StateOf(data, u) = "Running"]_vars

\* ------------------------------------------------------------------------
\* Credits
\* ------------------------------------------------------------------------
\* /mi_tiempo: the caller's total and the credits shown for it
MiTiempo(u, role) ==
    /\ lastCall' =
          IF ~Has(data, u) THEN Call("mi_tiempo", u, FALSE, 0)
          ELSE Call("mi_tiempo", u, TRUE,
                    calculate_credits(get_total_time(data, u, clock),
                                      has_unlimited_time_role(u, role)))
    /\ UNCHANGED <<data, disk, clock, running_time, sent, scanner_vars, pending_check, task_vars>>

\* the ledger under the member's sessions and adjustments, and /mi_tiempo
NextCredits ==
    \/ SessionCall
    \/ \E u \in Members, name \in Names, minutes \in LedgerMinutes : AddMinutes(u, name, minutes)
    \/ \E u \in Members, minutes \in LedgerMinutes : SubtractMinutes(u, minutes)
    \/ Tick
    \/ \E u \in Members, role \in BOOLEAN : MiTiempo(u, role)

SpecCredits == Init /\ [][NextCredits]_vars

\* totals around the two thresholds, below zero and far above
CreditSeconds ==
    {s \in (0 - Hour)..(5 * Hour) : s % TimeStep \in {0, 1, TimeStep - 1}}

\* C22: the credits are 0 for a total under 3600 s (and for a negative one),
\* 3 from 3600 s up to 7199 s and 5 from 7200 s on, whatever the role, and
\* the credits a command shows for a user are the ones of this rule.
C22_CreditsAreStepped ==
    [][\A u \in Members, role \in BOOLEAN :
          MiTiempo(u, role) /\ Has(data, u)
          => /\ LET t == get_total_time(data, u, clock)
                IN  lastCall'.n = (IF t >= 7200 THEN 5 ELSE IF t >= 3600 THEN 3 ELSE 0)
             /\ \A s \in CreditSeconds, r \in BOOLEAN :
                    /\ calculate_credits(s, r) =
                          (IF s >= 7200 THEN 5 ELSE IF s >= 3600 THEN 3 ELSE 0)
                    /\ calculate_credits(s, r) = calculate_credits(s, ~r)]_vars

\* /mi_tiempo has just shown 3 credits to the member, who is Running with
\* a total of an hour and a half
C22_Witness ==
    /\ lastCall.op = "mi_tiempo" /\ lastCall.user = 1 /\ lastCall.ret
    /\ lastCall.n = 3
    /\ StateOf(data, 1) = "Running"
    /\ get_total_time(data, 1, clock) = Hour + TimeStep

\* ------------------------------------------------------------------------
\* pause_count over sessions, commands and the scanner
\* ------------------------------------------------------------------------
\* the member's sessions (start and stop as the ledger does them, pause and
\* resume as the commands do them), the ledger's adjustments, reset and
\* cancel, and the scanner
NextPauses ==
    \/ \E u \in Members, name \in Names : StartTracking(u, name)
    \/ \E u \in Members : StopTracking(u)
    \/ \E u \in Members : PausarTiempo(u)
    \/ \E u \in Members : DespausarTiempo(u)
    \/ \E u \in Members, name \in Names, minutes \in CommandMinutes : AddMinutes(u, name, minutes)
    \/ \E u \in Members, minutes \in CommandMinutes : SubtractMinutes(u, minutes)
    \/ \E u \in Members : ReiniciarTiempo(u)
    \/ \E u \in Members : CancelarTiempo(u)
    \/ Scanner
    \/ BotTick

SpecPauses == Init /\ [][NextPauses]_vars

\* this step resets or removes the record of u
ResetsOrRemoves(u) ==
    \/ lastCall'.op \in {"reset", "cancel", "auto_cancel"} /\ lastCall'.user = u
    \/ lastCall'.op \in {"reset_all", "clear_all"}

\* C23: pause_count of a record goes up by exactly 1 in a successful pause
\* and is left as it is by every other step (start, stop, resume, add,
\* subtract, the scanner's steps, refused calls), except that a reset sets
\* it to 0 and a cancel removes the record; so it never decreases while the
\* record is neither reset nor cancelled, from one session to the next.
C23_PauseCountOnlyGrows ==
    [][\A u \in Members :
          Has(data, u) =>
              IF ResetsOrRemoves(u)
              THEN Has(data', u) => data'.recs[u].pause_count = 0
              ELSE /\ Has(data', u)
                   /\ data'.recs[u].pause_count =
                         data.recs[u].pause_count +
                         (IF lastCall'.op = "pause" /\ lastCall'.user = u /\ lastCall'.ret
                          THEN 1 ELSE 0)]_vars

\* the second pause of a record, in its second session: the first pause
\* was counted in the session that has since been closed, and the scanner
\* has notified a threshold in between
C23_Witness ==
    /\ lastCall.op = "pause" /\ lastCall.user = 1 /\ lastCall.ret
    /\ StateOf(data, 1) = "Paused"
    /\ data.recs[1].pause_count = 2
    /\ Len(data.recs[1].sessions) = 1
    /\ data.recs[1].notified_milestones # {}

\* hours, minutes and seconds that are 0, 1 and more than 1 in every
\* combination, and negative values
FormatSeconds ==
    {h * Hour + m * MinuteSeconds + c :
        h \in {0, 1, 2, 25}, m \in {0, 1, 2, 59}, c \in {0, 1, 2, 59}}
    \cup {0 - 5, 0 - 1, 0 - Hour}

\* the units of s that are not 0, hours first, then minutes, then seconds
NonZeroUnits(s) ==
    LET all == <<[count |-> s \div 3600, unit |-> "Hora"],
                 [count |-> (s % 3600) \div 60, unit |-> "Minuto"],
                 [count |-> s % 60, unit |-> "Segundo"]>>
        IsNonZero(x) == x.count # 0
    IN  SelectSeq(all, IsNonZero)

\* C25: for s >= 0, format_time_human(s) lists the units of s that are not
\* 0 among hours = s div 3600, minutes = (s mod 3600) div 60 and seconds =
\* s mod 60, in this order, or the seconds alone with 0 when all are 0;
\* a unit has the plural s exactly when its count is not 1; every negative
\* s gives what 0 gives.  /mi_tiempo shows the total in this format.
C25_FormatListsNonZeroUnits ==
    [][\A u \in Members, role \in BOOLEAN :
          MiTiempo(u, role) /\ Has(data, u)
          => \A s \in FormatSeconds \cup {get_total_time(data, u, clock)} :
                LET out == format_time_human(s)
                    units == NonZeroUnits(s)
                IN  IF s < 0
                    THEN out = format_time_human(0)
                    ELSE /\ Len(out) = (IF units = <<>> THEN 1 ELSE Len(units))
                         /\ units = <<>> =>
                                out[1].count = 0 /\ out[1].unit = "Segundo" /\ out[1].s
                         /\ units # <<>> =>
                                \A i \in DOMAIN units :
                                    /\ out[i].count = units[i].count
                                    /\ out[i].unit = units[i].unit
                         /\ \A i \in DOMAIN out : out[i].s <=> out[i].count # 1]_vars

\* /mi_tiempo has just shown the member a total of an hour and a half:
\* "1 Hora, 30 Minutos"
C25_Witness ==
    /\ lastCall.op = "mi_tiempo" /\ lastCall.user = 1 /\ lastCall.ret
    /\ format_time_human(get_total_time(data, 1, clock)) =
          <<[count |-> 1, unit |-> "Hora", s |-> FALSE],
            [count |-> 30, unit |-> "Minuto", s |-> TRUE]>>
    /\ format_time_human(3661) =
          <<[count |-> 1, unit |-> "Hora", s |-> FALSE],
            [count |-> 1, unit |-> "Minuto", s |-> FALSE],
            [count |-> 1, unit |-> "Segundo", s |-> FALSE]>>

\* C24: between any two steps (a ledger mutator, a command up to its first
\* await, a scanner step up to its await) the file holds what the store
\* holds: every change of a record, the scanner's marking of
\* notified_milestones and milestone_completed included, is saved.
C24_DiskEqualsStore == disk = data

\* the catch-up pass has just marked the thresholds of the member, who was
\* not Running, so that stop_tracking wrote nothing: the marks are in the
\* file
C24_Witness ==
    /\ lastCall.op = "catch_up" /\ lastCall.user = 1
    /\ lastCall.n > 0 /\ ~lastCall.ret
    /\ scan_pc = "cu_send"
    /\ Has(disk, 1)
    /\ lastCall.n * Hour \in disk.recs[1].notified_milestones
    /\ disk = data

\* this step ends the delivery that the scanner awaits
SendDone ==
    \/ \E role \in BOOLEAN : CatchUpSendDone(role)
    \/ \E role \in BOOLEAN : LiveSendDone(role)

\* C26 (as stated): when the catch-up pass or the live loop goes into the
\* delivery of a notification for a user, the stored record of the user
\* already holds the threshold notified, the file holds the store, and the
\* user is not Running; and when the delivery is over, however it ended,
\* the record still holds its thresholds and the user is still not Running.
C26_MarkedBeforeDelivery ==
    [][\A u \in Users :
          /\ lastCall'.op \in {"catch_up", "live"} /\ lastCall'.user = u
             => /\ Has(data', u)
                /\ lastCall'.n * Hour \in data'.recs[u].notified_milestones
                /\ disk' = data'
                /\ StateOf(data', u) # "Running"
          /\ SendDone /\ Head(tracked_users).uid = u /\ Has(data, u)
             => /\ Has(data', u)
                /\ data.recs[u].notified_milestones \subseteq data'.recs[u].notified_milestones
                /\ StateOf(data, u) # "Running" => StateOf(data', u) # "Running"]_vars

\* C27 (as stated): when the catch-up pass has found a missing threshold
\* for a user and goes into its notification, the user is Idle, whether it
\* was Running, Paused or Idle before, and for a user who was Running the
\* seconds of the open session have been added to total_time.
C27_CatchUpLeavesIdle ==
    [][\A u \in Users :
          CatchUpNotifies(u) /\ Has(data, u)
          => /\ StateOf(data', u) = "Idle"
             /\ StateOf(data, u) = "Running"
                => data'.recs[u].total_time = data.recs[u].total_time + Elapsed(u)]_vars

\* C28: the live loop acts on a user only if the user is Running with at
\* least 3600 s in the open session and the threshold of the full hours of
\* the total is not notified; it then marks every missing threshold up to
\* that one, stops the session, adding its seconds to total_time, and
\* sends one notification, for the highest threshold.  A pass of the live
\* loop that acts on nobody changes no record (but for the stamp of the
\* catch-up pass that ended in the same step) and sends nothing, and
\* leaves no Running user with 3600 s in the session and the threshold of
\* its full hours missing.
C28_LiveLoopActsOnDueSessions ==
    [][\A u \in Members :
          /\ lastCall'.op = "live" /\ lastCall'.user = u /\ Scanner
             => LET total_hours == get_total_time(data, u, clock) \div Hour
                IN  /\ StateOf(data, u) = "Running"
                    /\ Elapsed(u) >= Hour
                    /\ total_hours * Hour \notin data.recs[u].notified_milestones
                    /\ \A h \in 1..total_hours :
                           h * Hour \in data'.recs[u].notified_milestones
                    /\ StateOf(data', u) = "Idle"
                    /\ data'.recs[u].total_time = data.recs[u].total_time + Elapsed(u)
                    /\ lastCall'.n = total_hours
                    /\ sent'[u] = Append(sent[u], total_hours)
          /\ lastCall'.op = "scan" /\ Scanner /\ Has(data, u)
             => /\ Has(data', u)
                /\ [data'.recs[u] EXCEPT !.last_milestone_check = None]
                     = [data.recs[u] EXCEPT !.last_milestone_check = None]
                /\ sent' = sent
                /\ StateOf(data, u) = "Running" /\ Elapsed(u) >= Hour
                   => ((get_total_time(data, u, clock) \div Hour) * Hour)
                         \in data.recs[u].notified_milestones]_vars

\* the live loop has just stopped the member at three hours, of which one
\* in the session: it has marked the three thresholds and sent the
\* notification of the third only
C28_Witness ==
    /\ lastCall.op = "live" /\ lastCall.user = 1 /\ lastCall.n = 3
    /\ scan_pc = "live_send"
    /\ StateOf(data, 1) = "Idle"
    /\ data.recs[1].total_time = 3 * Hour
    /\ data.recs[1].notified_milestones = {Hour, 2 * Hour, 3 * Hour}
    /\ sent[1] = <<3>>

\* ------------------------------------------------------------------------
\* Exceptions in the scanner
\* ------------------------------------------------------------------------
\* An iteration of either loop raises when a call in it does: int() on a
\* key of user_times.json that is no number, datetime.fromisoformat on a
\* last_start that is no ISO date.  Which iteration raises is the choice of
\* the environment.  The exception is raised by the first statements of the
\* iteration, before it writes anything.

\* the number of entries of snap that a pass iterates over before its next
\* await, when rest is what is left of snap at that await
Reached(snap, rest) ==
    Len(snap) - Len(rest) + (IF rest = <<>> THEN 0 ELSE 1)

\* check_missing_milestones raises in the iteration of user_id: its except
\* clause ends the pass, and periodic_milestone_check goes on to its own loop
RaiseInCatchUp(D, dsk, snap, role, user_id) ==
    /\ \E i \in 1..Reached(snap, SkipCatchUp(D, snap, clock)) : snap[i].uid = user_id
    /\ RunLive(D, dsk, get_all_tracked_users(D), role)
    /\ scan_total' = 0

\* the loop of periodic_milestone_check raises in the iteration of user_id:
\* the except clause of the while body sleeps and the loop starts over
RaiseInLive(D, dsk, snap, user_id) ==
    /\ \E i \in 1..Reached(snap, SkipLive(D, snap, clock)) :
           snap[i].uid = user_id /\ LiveFilter(D, snap[i])
    /\ data' = D
    /\ disk' = dsk
    /\ scan_pc' = "sleep"
    /\ tracked_users' = <<>>
    /\ lastCall' = Call("scan_error", user_id, FALSE, 0)
    /\ sent' = sent

\* asyncio.sleep(5) returns on a round of the catch-up pass, which raises
WakeCatchUpRaise(role, user_id) ==
    /\ scan_pc = "sleep"
    /\ milestone_check_count' = (milestone_check_count + 1) % CatchUpPeriod
    /\ (milestone_check_count + 1) % CatchUpPeriod = 1
    /\ RaiseInCatchUp(data, disk, get_all_tracked_users(data), role, user_id)
    /\ UNCHANGED <<bot_vars, pending_check, task_vars>>

\* the send of check_missing_milestones is over, and a later iteration raises
SendCatchUpRaise(role, user_id) ==
    /\ scan_pc = "cu_send"
    /\ LET D == mark_checked(data, Head(tracked_users), scan_total)
       IN  RaiseInCatchUp(D, D, Tail(tracked_users), role, user_id)
    /\ UNCHANGED <<bot_vars, milestone_check_count, pending_check, task_vars>>

\* asyncio.sleep(5) returns on a round without catch-up pass, and the loop
\* over the active users raises
WakeLiveRaise(user_id) ==
    /\ scan_pc = "sleep"
    /\ milestone_check_count' = (milestone_check_count + 1) % CatchUpPeriod
    /\ (milestone_check_count + 1) % CatchUpPeriod # 1
    /\ RaiseInLive(data, disk, get_all_tracked_users(data), user_id)
    /\ scan_total' = 0
    /\ UNCHANGED <<bot_vars, pending_check, task_vars>>

\* the send of check_time_milestone is over, and a later iteration raises
SendLiveRaise(user_id) ==
    /\ scan_pc = "live_send"
    /\ RaiseInLive(data, disk, Tail(tracked_users), user_id)
    /\ UNCHANGED <<bot_vars, milestone_check_count, scan_total, pending_check, task_vars>>

CatchUpRaise(user_id) ==
    \/ \E role \in BOOLEAN : WakeCatchUpRaise(role, user_id)
    \/ \E role \in BOOLEAN : SendCatchUpRaise(role, user_id)

LiveRaise(user_id) ==
    \/ WakeLiveRaise(user_id)
    \/ SendLiveRaise(user_id)

\* !iniciar and !sumar for the member and the external user, the clock, and
\* the scanner with its exceptions
NextFaults ==
    \/ \E u \in Users, name \in Names : IniciarPrefix(u, name, FALSE)
    \/ \E u \in Users, name \in Names, minutes \in CommandMinutes : SumarMinutos(u, name, minutes)
    \/ \E u \in Users : SumarCheck(u, FALSE)
    \/ BotTick
    \/ Wake(FALSE)
    \/ CatchUpSendDone(FALSE)
    \/ LiveSendDone(FALSE)
    \/ \E u \in Users : WakeCatchUpRaise(FALSE, u)
    \/ \E u \in Users : SendCatchUpRaise(FALSE, u)
    \/ \E u \in Users : WakeLiveRaise(u)
    \/ \E u \in Users : SendLiveRaise(u)

SpecFaults == Init /\ [][NextFaults]_vars

\* the entries that the pass of this step iterates over
PassEntries ==
    IF scan_pc = "sleep" THEN get_all_tracked_users(data) ELSE Tail(tracked_users)

\* the pass of this step comes to user v after user u
ComesAfter(u, v) ==
    \E i, j \in DOMAIN PassEntries :
        /\ i < j
        /\ PassEntries[i].uid = u
        /\ PassEntries[j].uid = v /\ PassEntries[j].live

\* the thresholds that the catch-up pass would find missing for v in store D
MissingOf(D, v, now) ==
    missing_milestones(D.recs[v].notified_milestones, get_total_time(D, v, now) \div Hour)

\* C29 (as stated): when an iteration of the scanner raises, the users that
\* the pass had still to come to are processed in the same tick.  For the
\* catch-up pass: a user later in the snapshot who is not Running and has
\* missing thresholds has them marked when the step that raised is over.
\* For the live loop: a Running user later in the snapshot with 3600 s in
\* the session and missing thresholds has them marked and is stopped.
C29_ErrorAtOneUserSparesTheOthers ==
    [][\A u, v \in Users :
          u # v /\ ComesAfter(u, v) /\ Has(data, v) /\ MissingOf(data, v, clock) # {}
          => /\ CatchUpRaise(u) /\ StateOf(data, v) # "Running"
                => MissingOf(data', v, clock) = {}
             /\ LiveRaise(u) /\ StateOf(data, v) = "Running" /\ Elapsed(v) >= Hour
                => MissingOf(data', v, clock) = {} /\ StateOf(data', v) = "Idle"]_vars

\* a step of periodic_milestone_check, from one await to the next, while
\* the clock stands still: no session reaches an hour, so the loop over the
\* active users never sends
ScannerStep ==
    \/ \E u \in Users : WakeCatchUpRaise(FALSE, u)
    \/ \E u \in Users : SendCatchUpRaise(FALSE, u)
    \/ \E u \in Users : WakeLiveRaise(u)
    \/ CatchUpSendDone(FALSE)
    \/ Wake(FALSE)

\* !sumar for both users and !iniciar for the member, with the scanner and
\* its exceptions
NextLoop ==
    \/ \E u \in Members, name \in Names : IniciarPrefix(u, name, FALSE)
    \/ \E u \in Users, name \in Names, minutes \in CommandMinutes : SumarMinutos(u, name, minutes)
    \/ \E u \in Users : SumarCheck(u, FALSE)
    \/ ScannerStep

\* the event loop resumes the task of periodic_milestone_check whenever
\* the sleep or the send it awaits is over: asyncio.sleep returns after its
\* delay, and the sends are bounded by wait_for(timeout=10.0)
FairLoop == Init /\ [][NextLoop]_vars /\ WF_vars(ScannerStep)

\* the rounds of the scanner never end: whatever an iteration raises,
\* asyncio.sleep(5) returns again and the counter of the rounds moves on
ScannerSurvives ==
    /\ []<>(milestone_check_count = 0)
    /\ []<>(milestone_check_count = 1)

\* C30 (as stated): the scanner outlives every exception, and a user that a
\* failing round did not come to is examined by a later round: a user who
\* has thresholds that the catch-up pass would notify gets them marked.
C30_SkippedUserIsExaminedLater ==
    /\ ScannerSurvives
    /\ \A v \in Users :
           (Has(data, v) /\ MissingOf(data, v, clock) # {})
              ~> (Has(data, v) /\ MissingOf(data, v, clock) = {})

\* ------------------------------------------------------------------------
\* The start of the scanner
\* ------------------------------------------------------------------------
\* start_periodic_checks without its test of the global
start_periodic_checks_always(task, tasks) ==
    [task |-> tasks + 1, tasks |-> tasks + 1, created |-> TRUE]

\* start_periodic_checks: the task is created only while the global is
\* None; there is no await between the test and the assignment
start_periodic_checks(task, tasks) ==
    IF task = None
    THEN [task |-> tasks + 1, tasks |-> tasks + 1, created |-> TRUE]
    ELSE [task |-> task, tasks |-> tasks, created |-> FALSE]

\* the process has started and has not connected yet
InitProcess ==
    /\ milestone_check_task = None
    /\ scanner_tasks = 0
    /\ notifying = {}
    /\ data = EmptyStore
    /\ disk = EmptyStore
    /\ clock = 0
    /\ lastCall = Call("init", 0, TRUE, 0)
    /\ running_time = [u \in Users |-> 0]
    /\ sent = [u \in Users |-> <<>>]
    /\ scan_pc = "sleep"
    /\ milestone_check_count = 0
    /\ tracked_users = <<>>
    /\ scan_total = 0
    /\ pending_check = {}

\* on_connect: the gateway connection is up, for the first time or again
OnConnect ==
    /\ LET r == start_periodic_checks(milestone_check_task, scanner_tasks)
       IN  /\ milestone_check_task' = r.task
           /\ scanner_tasks' = r.tasks
           /\ lastCall' = Call("on_connect", 0, r.created, r.tasks)
    /\ UNCHANGED <<data, disk, clock, running_time, sent, scanner_vars, pending_check,
                   notifying>>

\* a step of the scanner's task, once there is one
TaskStep ==
    /\ scanner_tasks > 0
    /\ \/ Wake(FALSE)
       \/ CatchUpSendDone(FALSE)

\* connections and reconnections, !sumar for both users, and the scanner
NextConnect ==
    \/ OnConnect
    \/ \E u \in Users, name \in Names, minutes \in CommandMinutes : SumarMinutos(u, name, minutes)
    \/ \E u \in Users : SumarCheck(u, FALSE)
    \/ TaskStep

SpecConnect == InitProcess /\ [][NextConnect]_vars

\* C31: whatever the number of connections, at most one task of the scanner
\* is ever created, and the global holds it from the first connection on.
C31_OneScannerTask ==
    /\ scanner_tasks <= 1
    /\ milestone_check_task = None <=> scanner_tasks = 0
    /\ lastCall.op = "on_connect" => scanner_tasks = 1 /\ lastCall.n = 1

\* the bot has connected again after the scanner's task notified a user:
\* on_connect has created nothing
C31_Witness ==
    /\ lastCall = Call("on_connect", 0, FALSE, 1)
    /\ scanner_tasks = 1
    /\ milestone_check_count > 0
    /\ \E u \in Users : sent[u] # <<>>

\* ------------------------------------------------------------------------
\* The role and the accounting
\* ------------------------------------------------------------------------
\* store D without the milestone_completed flags
WithoutCompleted(D) ==
    [D EXCEPT !.recs = [u \in DOMAIN D.recs |->
                           [D.recs[u] EXCEPT !.milestone_completed = FALSE]]]

\* two outcomes of a check that differ in milestone_completed at most
SameAccounting(r1, r2) ==
    /\ WithoutCompleted(r1.data) = WithoutCompleted(r2.data)
    /\ r1.notify = r2.notify
    /\ r1.stop_ret = r2.stop_ret
    /\ r1.saved = r2.saved

RECURSIVE catch_up_pass(_, _, _, _)
catch_up_pass(D, snap, now, role) ==
    IF snap = <<>> THEN [data |-> D, sent |-> <<>>]
    ELSE LET e == Head(snap)
             r == check_missing_user(D, e, now, has_unlimited_time_role(e.uid, role))
             D1 == IF r.notify # 0
                   THEN mark_checked(r.data, e, get_total_time(D, e.uid, now))
                   ELSE r.data
             rest == catch_up_pass(D1, Tail(snap), now, role)
         IN  [data |-> rest.data,
              sent |-> (IF r.notify # 0
                        THEN <<[uid |-> e.uid, hours |-> r.notify]>>
                        ELSE <<>>) \o rest.sent]

\* C33: from every reachable state, a catch-up pass followed at once by a
\* second one, at the same time of the clock: the second sends nothing and
\* leaves every record as the first left it.
C33_CatchUpIsIdempotent ==
    \A r1, r2 \in BOOLEAN :
        LET p1 == catch_up_pass(data, get_all_tracked_users(data), clock, r1)
            p2 == catch_up_pass(p1.data, get_all_tracked_users(p1.data), clock, r2)
        IN  /\ p2.sent = <<>>
            /\ p2.data = p1.data

\* the first pass has something to do: it stops the Running member with two
\* thresholds missing and sends the notification of the second
C33_Witness ==
    /\ StateOf(data, 1) = "Running"
    /\ LET p1 == catch_up_pass(data, get_all_tracked_users(data), clock, FALSE)
       IN  /\ p1.sent = <<[uid |-> 1, hours |-> 2]>>
           /\ StateOf(p1.data, 1) = "Idle"
           /\ p1.data.recs[1].notified_milestones = {Hour, 2 * Hour}

\* ------------------------------------------------------------------------
\* The deliveries that the command handlers await
\* ------------------------------------------------------------------------
\* the notifications of the command handlers
NoticeKinds == {"pause", "auto_cancel", "resume", "cancel"}

\* the handlers that await a delivery, with the one of this kind for user u
Awaiting(kind, u) == notifying \cup {[kind |-> kind, user |-> u]}

\* pausar_tiempo up to the await of channel.send in send_pause_notification
\* or send_auto_cancellation_notification
PausarTiempoAwait(u) ==
    /\ LET r == pausar_tiempo(data, u, clock)
       IN  /\ Returned(r)
           /\ lastCall' = Call(IF r.notice = "auto_cancel" THEN "auto_cancel" ELSE "pause",
                               u, r.ret, get_pause_count(r.paused, u))
           /\ sent' = Forget(sent, r.data, <<>>)
           /\ tracked_users' = Detach(tracked_users, r.paused, r.data)
           /\ notifying' = IF r.notice = "none" THEN notifying ELSE Awaiting(r.notice, u)
    /\ UNCHANGED <<bot_vars, scan_pc, milestone_check_count, scan_total, pending_check,
                   milestone_check_task, scanner_tasks>>

\* despausar_tiempo up to the await of channel.send in send_unpause_notification
DespausarTiempoAwait(u) ==
    /\ Known(data, u)
    /\ LET r == resume_tracking(data, u, clock)
       IN  /\ Returned(r)
           /\ lastCall' = Call("resume", u, r.ret, 0)
           /\ notifying' = IF r.ret THEN Awaiting("resume", u) ELSE notifying
    /\ UNCHANGED <<bot_vars, sent, scanner_vars, pending_check,
                   milestone_check_task, scanner_tasks>>

\* cancelar_tiempo up to the await of channel.send in send_cancellation_notification
CancelarTiempoAwait(u) ==
    /\ Has(data, u)
    /\ LET r == cancel_user_tracking(data, u)
       IN  /\ Returned(r)
           /\ lastCall' = Call("cancel", u, r.ret, 0)
           /\ tracked_users' = Detach(tracked_users, data, r.data)
           /\ sent' = Forget(sent, r.data, <<>>)
           /\ notifying' = IF r.ret THEN Awaiting("cancel", u) ELSE notifying
    /\ UNCHANGED <<bot_vars, scan_pc, milestone_check_count, scan_total, pending_check,
                   milestone_check_task, scanner_tasks>>

\* channel.send returns or raises in one of the four send_*_notification
\* functions: the function logs, and the handler that awaited it is over
ChannelSendReturns(h) ==
    /\ h \in notifying
    /\ notifying' = notifying \ {h}
    /\ lastCall' = Call("delivered", h.user, TRUE, 0)
    /\ UNCHANGED <<data, disk, clock, running_time, sent, scanner_vars, pending_check,
                   milestone_check_task, scanner_tasks>>

\* asyncio.sleep(5) returns in periodic_milestone_check and the round is counted
RoundStarts ==
    /\ scan_pc = "sleep"
    /\ milestone_check_count' = (milestone_check_count + 1) % CatchUpPeriod

\* the commands of the member that notify a channel, !sumar, and the scanner
NextSends ==
    \/ \E u \in Members, name \in Names : IniciarTiempo(u, name, FALSE)
    \/ \E u \in Members : PausarTiempoAwait(u)
    \/ \E u \in Members : DespausarTiempoAwait(u)
    \/ \E u \in Members : CancelarTiempoAwait(u)
    \/ \E kind \in NoticeKinds, u \in Members : ChannelSendReturns([kind |-> kind, user |-> u])
    \/ \E u \in Members, name \in Names, minutes \in CommandMinutes : SumarMinutos(u, name, minutes)
    \/ \E u \in Members : SumarCheck(u, FALSE)
    \/ Wake(FALSE)
    \/ CatchUpSendDone(FALSE)

\* The event loop resumes the scanner when asyncio.sleep returns, and its
\* send is cut off by wait_for(timeout=10.0) (src/bot.py:1188).  Nothing
\* bounds the channel.send of the command handlers (src/bot.py:899, 915,
\* 933, 952), so no fairness is stated for ChannelSendReturns.
FairSends ==
    /\ Init /\ [][NextSends]_vars
    /\ WF_milestone_check_count(RoundStarts)
    /\ WF_vars(CatchUpSendDone(FALSE))

\* the state transition of the handler that starts to await in this step
\* has taken effect, in the store and in the file
TransitionDone(h) ==
    /\ disk' = data'
    /\ h.kind = "pause" => StateOf(data', h.user) = "Paused"
    /\ h.kind = "resume" => StateOf(data', h.user) = "Running"
    /\ h.kind \in {"auto_cancel", "cancel"} => ~Has(data', h.user)

\* C34 (as stated): a handler that awaits the delivery of a notification
\* has made its state transition, and it ends even if the delivery never
\* completes: every command handler that awaits channel.send is over at
\* some later time, and so is every send that the scanner awaits.
C34_DeliveriesAreBounded ==
    /\ [][\A h \in notifying' \ notifying : TransitionDone(h)]_vars
    /\ \A kind \in NoticeKinds, u \in Members :
           ([kind |-> kind, user |-> u] \in notifying)
              ~> ([kind |-> kind, user |-> u] \notin notifying)
    /\ (scan_pc = "cu_send") ~> (scan_pc = "sleep")

\* ------------------------------------------------------------------------
\* Saves that fail
\* ------------------------------------------------------------------------
\* save_data when open or json.dump raises: the except clause logs and the
\* method returns.  The file keeps its content if open raised, and is cut
\* short if json.dump raised after open truncated it; load_data reads a
\* file that is no JSON as the empty store.
save_data_raising(old_disk) == {old_disk, EmptyStore}

MutatorOps == {"start", "stop", "pause", "resume", "add", "subtract", "reset", "cancel"}

\* the single-user mutators of TimeTracker by name
Mutate(op, D, u, name, now) ==
    CASE op = "start" -> start_tracking(D, u, name, now)
      [] op = "stop" -> stop_tracking(D, u, now)
      [] op = "pause" -> pause_tracking(D, u, now)
      [] op = "resume" -> resume_tracking(D, u, now)
      [] op = "add" -> add_minutes(D, u, name, SetMax(CommandMinutes))
      [] op = "subtract" -> subtract_minutes(D, u, SetMax(CommandMinutes))
      [] op = "reset" -> reset_user_time(D, u)
      [] op = "cancel" -> cancel_user_tracking(D, u)

\* a mutator whose save_data raises inside: the mutator returns what it
\* returns otherwise, and the store keeps what it wrote
MutatorSaveFails(op, u, name) ==
    /\ op = "start" => MayStart(data, u)
    /\ op = "pause" => MayPause(data, u)
    /\ op = "add" => MayAdjust(data, u, SetMax(CommandMinutes) * MinuteSeconds)
    /\ LET r == Mutate(op, data, u, name, clock)
       IN  /\ r.saved
           /\ data' = r.data
           /\ disk' \in save_data_raising(disk)
           /\ lastCall' = Call("save_failed", u, r.ret, 0)
    /\ running_time' = Forget(running_time, data', 0)
    /\ UNCHANGED <<clock, sent, scanner_vars, pending_check, task_vars>>

\* what the second user does: enough to have a record of its own
GuestOps == {"start", "cancel"}

\* the mutators of the member and the start and cancel of a second user,
\* each with a save that works and with one that fails
NextSaves ==
    \/ \E u \in Users, name \in Names : StartTracking(u, name)
    \/ \E u \in Members : StopTracking(u)
    \/ \E u \in Members : PauseTracking(u)
    \/ \E u \in Members : ResumeTracking(u)
    \/ \E u \in Members, name \in Names, minutes \in CommandMinutes : AddMinutes(u, name, minutes)
    \/ \E u \in Members, minutes \in CommandMinutes : SubtractMinutes(u, minutes)
    \/ \E u \in Members : ResetUserTime(u)
    \/ \E u \in Users : CancelUserTracking(u)
    \/ \E op \in MutatorOps, u \in Members, name \in Names : MutatorSaveFails(op, u, name)
    \/ \E op \in GuestOps, u \in Externals, name \in Names : MutatorSaveFails(op, u, name)

SpecSaves == Init /\ [][NextSaves]_vars

\* C35: a mutator whose save fails returns as it does otherwise and the
\* store keeps the mutation; a mutator that succeeds with a save that
\* works leaves the file equal to the whole store, whatever the file held
\* before; and the file changes in no other way.
C35_NextSaveRestoresTheFile ==
    [][/\ lastCall'.op = "save_failed"
          => \E op \in MutatorOps, name \in Names :
                LET r == Mutate(op, data, lastCall'.user, name, clock)
                IN  r.saved /\ data' = r.data /\ lastCall'.ret = r.ret
       /\ lastCall'.op \in MutatorOps /\ lastCall'.ret => disk' = data'
       /\ lastCall'.op \in MutatorOps /\ ~lastCall'.ret /\ disk' # disk => disk' = data'
      ]_vars

\* the save of the start of user 2 failed after open had truncated the
\* file: the store holds user 1 and the Running user 2, the file nothing
C35_Witness ==
    /\ lastCall = Call("save_failed", 2, TRUE, 0)
    /\ StateOf(data, 1) = "Paused"
    /\ StateOf(data, 2) = "Running"
    /\ disk = EmptyStore

\* ------------------------------------------------------------------------
\* Two users under the commands and the scanner
\* ------------------------------------------------------------------------
\* start and cancel for two users, pause, resume and reset for the member,
\* the clock and the scanner
NextFrame ==
    \/ \E u \in Users, name \in Names : IniciarPrefix(u, name, FALSE)
    \/ \E u \in Members : PausarTiempo(u)
    \/ \E u \in Members : DespausarTiempo(u)
    \/ \E u \in Members : ReiniciarTiempo(u)
    \/ \E u \in Users : CancelarTiempo(u)
    \/ BotTick
    \/ Wake(FALSE)
    \/ CatchUpSendDone(FALSE)
    \/ LiveSendDone(FALSE)

SpecFrame == Init /\ [][NextFrame]_vars

\* the record of a user, or no object
RecordOf(D, v) == IF Has(D, v) THEN D.recs[v] ELSE NoObject

\* the steps that act for one user: the commands, the check that ends a
\* sumar command, and the scanner from one await to the next
CommandSteps == MutatorOps \cup {"auto_cancel", "add_check"}
ScannerSteps == {"catch_up", "live", "scan"}

\* the users for whom this step acts: the one it names and, in a scanner
\* step that resumes after a send, the one whose send it was
ActsFor ==
    {lastCall'.user} \cup
    (IF lastCall'.op \in ScannerSteps /\ scan_pc # "sleep"
     THEN {Head(tracked_users).uid} ELSE {})

\* C36: a single-user operation of the ledger for user u, and a scanner
\* action for user u, leave the record of every other user as it was, and
\* neither create nor remove it.
C36_OtherRecordsUnchanged ==
    [][/\ \A op \in MutatorOps, u \in Users, name \in Names :
            \A v \in Users \ {u} :
                RecordOf(Mutate(op, data, u, name, clock).data, v) = RecordOf(data, v)
       /\ lastCall'.op \in CommandSteps \cup ScannerSteps
          => \A v \in Users \ ActsFor :
                /\ Has(data', v) = Has(data, v)
                /\ RecordOf(data', v) = RecordOf(data, v)
      ]_vars

\* the catch-up pass has just stopped and notified user 1 while user 2 is
\* Running
C36_Witness ==
    /\ lastCall.op = "catch_up" /\ lastCall.user = 1 /\ lastCall.n # 0
    /\ StateOf(data, 2) = "Running"

\* ------------------------------------------------------------------------
\* The live loop and the thresholds already marked
\* ------------------------------------------------------------------------
\* user u is Running and the open session has lasted an hour
LiveDue(u) ==
    /\ StateOf(data, u) = "Running"
    /\ data.recs[u].last_start # None
    /\ clock - data.recs[u].last_start >= Hour

\* this step starts the loop over the active users of periodic_milestone_check:
\* the scanner wakes up, or resumes after the last send of the catch-up pass,
\* and the catch-up pass has nothing to notify
LiveLoopStarts ==
    /\ \/ \E role \in BOOLEAN : Wake(role)
       \/ \E role \in BOOLEAN : CatchUpSendDone(role)
    /\ scan_pc' # "cu_send"

\* C38 (as stated): when the loop over the active users examines a Running
\* user whose session has lasted an hour, the user is Idle afterwards,
\* whatever notified_milestones holds.
C38_LiveCheckStopsDueUser ==
    [][\A u \in Members : LiveLoopStarts /\ LiveDue(u) => StateOf(data', u) = "Idle"]_vars

\* ------------------------------------------------------------------------
\* The clock runs on and no command comes
\* ------------------------------------------------------------------------
\* the commands come before the clock moves
EarlyCommand ==
    /\ clock = 0
    /\ \/ \E u \in Users, name \in Names : IniciarPrefix(u, name, FALSE)
       \/ \E u \in Members, name \in Names, minutes \in CommandMinutes : SumarMinutos(u, name, minutes)
       \/ \E u \in Members : SumarCheck(u, FALSE)
       \/ \E u \in Members, minutes \in CommandMinutes : RestarMinutos(u, minutes)

\* datetime.now() moves on by half an hour, up to LongClock half hours
ClockAdvances ==
    /\ scan_pc = "sleep"
    /\ clock < LongClock * TimeStep
    /\ clock' = clock + TimeStep
    /\ lastCall' = Call("tick", 0, TRUE, 0)
    /\ UNCHANGED <<data, disk, running_time, sent, scanner_vars, pending_check, task_vars>>

\* asyncio.sleep(5) returns on a round of the catch-up pass; the pass ends
\* without a send, by an exception in its first iteration or with nothing to
\* notify, and the loop over the active users raises
WakeBothRaise(user_id) ==
    /\ scan_pc = "sleep"
    /\ milestone_check_count' = (milestone_check_count + 1) % CatchUpPeriod
    /\ (milestone_check_count + 1) % CatchUpPeriod = 1
    /\ RaiseInLive(data, disk, get_all_tracked_users(data), user_id)
    /\ scan_total' = 0
    /\ UNCHANGED <<bot_vars, pending_check, task_vars>>

\* the send of check_missing_milestones is over; the rest of the pass ends
\* without a send, and the loop over the active users raises
SendBothRaise(user_id) ==
    /\ scan_pc = "cu_send"
    /\ LET D == mark_checked(data, Head(tracked_users), scan_total)
       IN  RaiseInLive(D, D, get_all_tracked_users(D), user_id)
    /\ scan_total' = 0
    /\ UNCHANGED <<bot_vars, milestone_check_count, pending_check, task_vars>>

\* the task of the scanner goes on from where it awaits, and an iteration of
\* either loop may raise
ScannerActs ==
    \/ \E u \in Users : WakeCatchUpRaise(FALSE, u)
    \/ \E u \in Users : SendCatchUpRaise(FALSE, u)
    \/ \E u \in Users : WakeLiveRaise(u)
    \/ \E u \in Users : SendLiveRaise(u)
    \/ \E u \in Users : WakeBothRaise(u)
    \/ \E u \in Users : SendBothRaise(u)
    \/ CatchUpSendDone(FALSE)
    \/ LiveSendDone(FALSE)
    \/ Wake(FALSE)

NextClock ==
    \/ EarlyCommand
    \/ ClockAdvances
    \/ ScannerActs

\* a send that the scanner awaits is over, by wait_for(timeout=10.0) at the
\* latest, and the task goes on to its next await
SendEnds ==
    /\ scan_pc # "sleep"
    /\ scan_pc' \in {"sleep", "cu_send", "live_send"}

\* the event loop resumes the task of the scanner when its sleep or its
\* bounded send is over, and time passes
FairClock ==
    /\ Init /\ [][NextClock]_vars
    /\ WF_milestone_check_count(RoundStarts)
    /\ WF_scan_pc(SendEnds)
    /\ SF_clock(ClockAdvances)

\* C37 (as stated): with the clock running on, the scanner taking its rounds
\* and no command coming, every Running user becomes Idle.
C37_RunningUserIsStopped ==
    \A u \in Users : (StateOf(data, u) = "Running") ~> (StateOf(data, u) = "Idle")

\* ------------------------------------------------------------------------
\* The catch-up pass and the records replaced during its sends
\* ------------------------------------------------------------------------
\* C39 (as stated): when the catch-up pass notifies a threshold for user u,
\* the record that the store holds for u at that moment, if it holds one,
\* gets the threshold into notified_milestones, also when the record was
\* cancelled and created again while the pass awaited a send for another
\* user.
C39_SweepMarksTheStoredRecord ==
    [][\A u \in Users :
          CatchUpNotifies(u) /\ Has(data', u)
          => lastCall'.n * Hour \in data'.recs[u].notified_milestones]_vars

\* ------------------------------------------------------------------------
\* pause_count under the pause command
\* ------------------------------------------------------------------------
\* C40: with pauses issued through the pause command only, a record in the
\* store or in the file has pause_count below the limit of the automatic
\* cancellation in every state between the handlers and the scanner's steps.
C40_PauseCountBelowLimit ==
    \A u \in Users :
        /\ Has(data, u) => data.recs[u].pause_count < AutoCancelPauses
        /\ Has(disk, u) => disk.recs[u].pause_count < AutoCancelPauses

\* the third pause of the member, counted over two sessions, has just
\* removed the record
C40_Witness ==
    /\ lastCall.op = "auto_cancel" /\ lastCall.user = 1 /\ lastCall.n = AutoCancelPauses
    /\ ~Has(data, 1) /\ ~Has(disk, 1)
    /\ clock > 0

====
